---- MODULE Spec2Model ----
(***************************************************************************)
(* GitHubInspectOrgs: the compound queries of typhonjs-github-inspect-orgs *)
(* as a state machine.  One client, a sequence of top-level calls; each    *)
(* call is the promise chain of the source, advanced by the callbacks of   *)
(* the API requests it has in flight.                                      *)
(*                                                                         *)
(* Keys (logins, names) are small integers compared with <, standing for   *)
(* strings compared with localeCompare.  An optional property (org.teams,  *)
(* repo.collaborators, ...) is a sequence that is empty when the property  *)
(* is undefined and holds the one value when it is set.                    *)
(***************************************************************************)
EXTENDS Integers, Sequences, FiniteSets, TLC

\* Bounds of the model.
MaxCalls == 2
MaxKey == 2
MaxListLen == 2
MaxEntities == 3
MaxReuseEntities == 2
MaxAuthRepoEntities == 6
MaxFlattenEntities == 5
MaxTeamMemberEntities == 4
MaxStatsEntities == 2
MaxFileEntities == 3
MaxNormalizeCalls == 2
MaxCredentialLen == 4
MaxOrganizations == 2
MaxRawLen == 2
MaxOwnerEntities == 4
MaxOperations == 2

\* ------------------------------------------------------------------------
\* Configuration: the verified `_organizations` of the constructor.  A regex
\* is the set of logins it matches.

organizations ==
  << [owner |-> 2, credential |-> 1, regex |-> {1, 2}],
     [owner |-> 1, credential |-> 2, regex |-> {2, 3}] >>

Sources == 1..Len(organizations)

OrgLogins == 1..(MaxKey + 1)

Keys == 1..MaxKey

\* ------------------------------------------------------------------------
\* Small helpers.

None == <<>>

Some(x) == <<x>>

Range(s) == {s[i] : i \in 1..Len(s)}

RECURSIVE InjSeqs(_, _)
\* The sequences without repetition over S of length at most n: the listings
\* an API request may answer with.
InjSeqs(S, n) ==
  IF n = 0 THEN {<<>>}
  ELSE LET shorter == InjSeqs(S, n - 1)
       IN  shorter \cup
           {Append(s, x) : <<s, x>> \in
              {p \in shorter \X S : Len(p[1]) = n - 1 /\ p[2] \notin Range(p[1])}}

\* Array.prototype.sort with (a, b) => a.key.localeCompare(b.key): a stable
\* sort by key; keys[i] is the key of s[i].
Sort(s, keys) ==
  LET n == Len(s)
      pos(i) == Cardinality({j \in 1..n : keys[j] < keys[i]})
                + Cardinality({j \in 1..(i - 1) : keys[j] = keys[i]}) + 1
  IN  [p \in 1..n |-> s[CHOOSE i \in 1..n : pos(i) = p]]

Logins(s) == [i \in 1..Len(s) |-> s[i].login]

Names(s) == [i \in 1..Len(s) |-> s[i].name]

IsSorted(keys) == \A i \in 1..(Len(keys) - 1) : keys[i] <= keys[i + 1]

\* ------------------------------------------------------------------------
\* The functions of the promise chains.

QueryOps ==
  {"getOrgs", "getOrgTeams", "getOrgTeamMembers", "getOrgMembers", "getOrgRepos",
   "getOrgRepoCollaborators", "getOrgRepoContributors", "getOrgRepoStats",
   "getCollaborators", "getContributors", "getMembers"}

\* getOwners, getOwnerRateLimits and getOwnerOrgs take no options.
OwnerOps == {"getOwners", "getOwnerRateLimits", "getOwnerOrgs"}

\* getCollaborators / getContributors / getMembers never read
\* options.normalize: they always return {normalized, raw}.
Flatteners == {"getCollaborators", "getContributors", "getMembers"}

\* typeof options.normalize === 'boolean' ? options.normalize : true
ReadNormalize(o) == IF o.normalize = "undefined" THEN TRUE ELSE o.normalize = "true"

\* Functions that set options.normalize = false before they run the gate.
MutatesAtEntry(fn) ==
  fn \in {"getCollaborators", "getContributors", "getMembers", "getOrgMembers",
          "getOrgRepoCollaborators", "getOrgRepoContributors", "getOrgRepoStats",
          "getOrgTeamMembers", "s_GET_ORG_REPOS_AUTH", "s_GET_ORG_TEAMS_AUTH"}

\* Functions that set options.normalize = false after the gate, and only on
\* their unauthenticated path.
MutatesAfterGate(fn, auth) == fn \in {"getOrgRepos", "getOrgTeams"} /\ ~auth

\* The function a function calls for its data ("none": it fetches itself).
Dep(fn, auth) ==
  CASE fn = "getCollaborators" -> "getOrgRepoCollaborators"
    [] fn = "getContributors" -> "getOrgRepoContributors"
    [] fn = "getMembers" -> "getOrgMembers"
    [] fn = "getOrgMembers" -> "getOrgs"
    [] fn = "getOrgRepoCollaborators" -> "getOrgRepos"
    [] fn = "getOrgRepoContributors" -> "getOrgRepos"
    [] fn = "getOrgRepoStats" -> "getOrgRepos"
    [] fn = "getOrgTeamMembers" -> "getOrgTeams"
    [] fn = "getOrgRepos" -> IF auth THEN "s_GET_ORG_REPOS_AUTH" ELSE "getOrgs"
    [] fn = "getOrgTeams" -> IF auth THEN "s_GET_ORG_TEAMS_AUTH" ELSE "getOrgs"
    [] fn = "getOrgs" -> IF auth THEN "s_GET_ORGS_AUTH" ELSE "none"
    [] fn = "s_GET_ORG_REPOS_AUTH" -> "s_GET_ORG_TEAMS_AUTH"
    [] fn = "s_GET_ORG_TEAMS_AUTH" -> "s_GET_ORGS_AUTH"
    [] OTHER -> "none"

\* `if (options.credential) { return s_X_AUTH(this, options); }`: the public
\* function returns the promise of the private one unchanged.
IsTail(fn, auth) == auth /\ fn \in {"getOrgs", "getOrgTeams", "getOrgRepos"}


\* ------------------------------------------------------------------------
\* State.

VARIABLES
  scope,     \* what the model explores: the methods called and the bounds
  options,   \* the options object the caller passed to the running call
  calls,     \* number of top-level calls begun
  call,      \* the running call: promise chain position, data, promise
  net,       \* API requests in flight (sent, callback not yet delivered)
  hist,      \* history of the running call, read only by properties
  norm,      \* the normalizer under study: its raw data and what it returned
  build,     \* the credential or client being built: its input and the outcome
  github     \* the shared API client under concurrent operations

vars == <<scope, options, calls, call, net, hist, norm, build, github>>

\* A request: the API method, and the source / organization / team / repo /
\* statistics category it targets (0 or "" where it has none).
Rq(kind, org, team, repo, cat) ==
  [kind |-> kind, org |-> org, team |-> team, repo |-> repo, cat |-> cat]

\* An organization as getOrgs keeps it: the API record (its login), the
\* attached `_credential`, and the properties later stages attach.
Org(login, credential) ==
  [login |-> login, credential |-> credential, auth_user |-> FALSE,
   teams |-> None, repos |-> None, members |-> None]

Team(name) == [name |-> name, members |-> None]

Repo(name) ==
  [name |-> name, full_name |-> <<"owner", name>>, default_branch |-> "master",
   repo_files |-> None, collaborators |-> None, contributors |-> None, stats |-> None]

\* { normalize: false, skipRateLimitCheck: true } of s_GET_ORGS_AUTH.
InternalOptions ==
  [normalize |-> "false", skipRateLimitCheck |-> TRUE, credential |-> FALSE,
   categories |-> <<>>, repoFiles |-> None]

\* `options = {}`: the object s_IS_RATE_LIMIT_REACHED works on when its caller
\* passes none.
DefaultOptions ==
  [normalize |-> "undefined", skipRateLimitCheck |-> FALSE, credential |-> FALSE,
   categories |-> <<>>, repoFiles |-> None]

\* A frame of the promise chain: the function, its `normalize` constant, and
\* whether its options carry a credential / are the internal options.
Frame(fn, o, internal) ==
  [fn |-> fn,
   normalize |-> IF fn \in Flatteners THEN TRUE ELSE ReadNormalize(o),
   auth |-> o.credential,
   internal |-> internal]

Top(stack) == stack[Len(stack)]

Pop(stack) == SubSeq(stack, 1, Len(stack) - 1)

RECURSIVE StripTail(_)
StripTail(stack) ==
  IF stack # <<>> /\ IsTail(Top(stack).fn, Top(stack).auth)
  THEN StripTail(Pop(stack))
  ELSE stack

IdleCall ==
  [op |-> "none", stack |-> <<>>, stage |-> "idle", aborted |-> FALSE,
   promise |-> "idle", shape |-> "none", value |-> <<>>,
   reason |-> [type |-> "none", owner |-> 0],
   orgs |-> <<>>, results |-> <<>>, rlFailed |-> FALSE, entities |-> 0,
   categories |-> <<>>, hung |-> FALSE]

NoHist ==
  [zeroSeen |-> {}, exhausted |-> {}, nData |-> 0, userFailed |-> FALSE,
   failed |-> {}, listed |-> {}, memberOK |-> {}, teamListed |-> {}, teamOK |-> {},
   teamRepos |-> {}, users |-> {}, pending |-> {}, files |-> {}, quota |-> {},
   nGate |-> 0, normalizeOff |-> FALSE]

\* ------------------------------------------------------------------------
\* The requests each stage sends.

\* Nothing is being built.
\* The API client before any call of authenticate, and no operation running.
IdleGitHub == [auth |-> 0, sent |-> {}, running |-> <<>>]

IdleBuild == [fn |-> "none", input |-> <<>>, done |-> FALSE, thrown |-> FALSE, value |-> <<>>]

\* The normalizer is not under study.
IdleNorm == [categories |-> <<>>, options |-> <<>>, input |-> <<>>, raw |-> <<>>,
             outs |-> <<>>, left |-> 0]

RateLimitRequests == {Rq("misc.rateLimit", s, 0, 0, "") : s \in Sources}

\* The rate-limit requests of the gate among `reqs`, and the other requests.
GateCount(reqs) == Cardinality({r \in reqs : r.kind = "misc.rateLimit"})

DataCount(reqs) == Cardinality({r \in reqs : r.kind # "misc.rateLimit"})

TeamsOf(org) == IF org.teams = None THEN <<>> ELSE org.teams[1]

ReposOf(org) == IF org.repos = None THEN <<>> ELSE org.repos[1]

\* The keys of s_STAT_CATEGORY_TO_FUNCT.
StatCategories ==
  {"codeFrequency", "commitActivity", "contributors", "participation", "punchCard",
   "stargazers", "watchers"}

\* A faulty variant of ExpandCategories: the wildcard leaves watchers out.
ExpandCategoriesButWatchers(categories) ==
  IF categories = <<"all">>
  THEN <<"codeFrequency", "commitActivity", "contributors", "participation", "punchCard",
         "stargazers">>
  ELSE categories

\* The wildcard `all` stands for every category.
ExpandCategories(categories) ==
  IF categories = <<"all">>
  THEN <<"codeFrequency", "commitActivity", "contributors", "participation", "punchCard",
         "stargazers", "watchers">>
  ELSE categories

\* The loops of getOrgRepoStats throw at the first unknown category of the
\* first repository they meet.
UnknownCategoryThrown(orgs, categories) ==
  /\ \E i \in 1..Len(orgs) : ReposOf(orgs[i]) # <<>>
  /\ Range(categories) \ StatCategories # {}

RequestsFor(stage, orgs, categories) ==
  CASE stage = "orgs.getFromUser" ->
         {Rq(stage, s, 0, 0, "") : s \in Sources}
    [] stage \in {"orgs.getMember", "orgs.getTeams", "orgs.getMembers", "repos.getFromOrg"} ->
         {Rq(stage, i, 0, 0, "") : i \in 1..Len(orgs)}
    [] stage \in {"orgs.getTeamMembers", "orgs.getTeamRepos"} ->
         UNION {{Rq(stage, i, j, 0, "") : j \in 1..Len(TeamsOf(orgs[i]))} : i \in 1..Len(orgs)}
    [] stage \in {"repos.getCollaborators", "repos.getContributors"} ->
         UNION {{Rq(stage, i, 0, r, "") : r \in 1..Len(ReposOf(orgs[i]))} : i \in 1..Len(orgs)}
    [] stage = "repos.stats" ->
         IF UnknownCategoryThrown(orgs, categories)
         THEN \* the requests sent before the throw
              LET i == CHOOSE j \in 1..Len(orgs) :
                         /\ ReposOf(orgs[j]) # <<>>
                         /\ \A h \in 1..(j - 1) : ReposOf(orgs[h]) = <<>>
                  k == CHOOSE n \in 1..Len(categories) :
                         /\ categories[n] \notin StatCategories
                         /\ \A h \in 1..(n - 1) : categories[h] \in StatCategories
              IN  {Rq(stage, i, 0, 1, categories[h]) : h \in 1..(k - 1)}
         ELSE UNION {{Rq(stage, i, 0, r, cat) :
                        <<r, cat>> \in (1..Len(ReposOf(orgs[i]))) \X Range(categories)} :
                     i \in 1..Len(orgs)}
    [] OTHER -> {}

\* The stage a function runs once the function it depends on has resolved.
StageOf(fn) ==
  CASE fn = "s_GET_ORGS_AUTH" -> "orgs.getMember"
    [] fn \in {"getOrgTeams", "s_GET_ORG_TEAMS_AUTH"} -> "orgs.getTeams"
    [] fn = "getOrgTeamMembers" -> "orgs.getTeamMembers"
    [] fn = "getOrgMembers" -> "orgs.getMembers"
    [] fn = "getOrgRepos" -> "repos.getFromOrg"
    [] fn = "s_GET_ORG_REPOS_AUTH" -> "orgs.getTeamRepos"
    [] fn = "getOrgRepoCollaborators" -> "repos.getCollaborators"
    [] fn = "getOrgRepoContributors" -> "repos.getContributors"
    [] fn = "getOrgRepoStats" -> "repos.stats"
    [] OTHER -> "none"

\* What a function does to the organizations it received before it sends its
\* requests: `org.teams = []`, `org.repos = []`, `repo.stats = [{}]`.
Prepare(fn, orgs) ==
  CASE fn = "s_GET_ORG_TEAMS_AUTH" ->
         [i \in 1..Len(orgs) |-> [orgs[i] EXCEPT !.teams = Some(<<>>)]]
    [] fn = "s_GET_ORG_REPOS_AUTH" ->
         [i \in 1..Len(orgs) |-> [orgs[i] EXCEPT !.repos = Some(<<>>)]]
    [] fn = "getOrgRepoStats" ->
         [i \in 1..Len(orgs) |->
            [orgs[i] EXCEPT !.repos =
               IF @ = None THEN None
               ELSE Some([r \in 1..Len(@[1]) |->
                            [@[1][r] EXCEPT !.stats =
                               Some([resultsPending |-> FALSE, keys |-> {}])]])]]
    [] OTHER -> orgs


\* ------------------------------------------------------------------------
\* getCollaborators / getContributors / getMembers: walk organizations, then
\* repositories, then users; keep the first user of each login; sort by login.

RECURSIVE Flat(_)
Flat(ss) == IF ss = <<>> THEN <<>> ELSE Head(ss) \o Flat(Tail(ss))

OptFlat(opt) == IF opt = None THEN <<>> ELSE opt[1]

RepoUsers(fn, repo) ==
  IF fn = "getCollaborators" THEN OptFlat(repo.collaborators) ELSE OptFlat(repo.contributors)

OrgUsers(fn, org) ==
  IF fn = "getMembers" THEN OptFlat(org.members)
  ELSE Flat([r \in 1..Len(ReposOf(org)) |-> RepoUsers(fn, ReposOf(org)[r])])

\* A faulty variant of FirstOfLogin: no seenUsers test.
EveryUser(users, seen) == users

RECURSIVE FirstOfLogin(_, _)
\* `if (typeof seenUsers[user.login] === 'undefined') { push; seenUsers[..] = 1 }`
FirstOfLogin(users, seen) ==
  IF users = <<>> THEN <<>>
  ELSE IF Head(users).login \in seen THEN FirstOfLogin(Tail(users), seen)
       ELSE <<Head(users)>> \o FirstOfLogin(Tail(users), seen \cup {Head(users).login})

Flatten(fn, orgs) ==
  LET all == Flat([i \in 1..Len(orgs) |-> OrgUsers(fn, orgs[i])])
      kept == FirstOfLogin(all, {})
  IN  Sort(kept, Logins(kept))

\* ------------------------------------------------------------------------
\* The promise chain: descent into the dependencies, and return from them.

SetNormalizeFalse(o) == [o EXCEPT !.normalize = "false"]

\* A faulty variant of SkipsGate: the flag on the options is not looked at.
SkipsGateInternalOnly(frame, o) == frame.internal

\* s_IS_RATE_LIMIT_REACHED's early out.
SkipsGate(frame, o) == frame.internal \/ o.skipRateLimitCheck

RECURSIVE Descend(_, _), AfterGate(_, _)
\* The function on top of the stack has been entered (its `normalize` read,
\* its entry assignment done) and calls s_IS_RATE_LIMIT_REACHED.
Descend(c, o) ==
  IF SkipsGate(Top(c.stack), o)
  THEN AfterGate(c, o)
  ELSE [c |-> [c EXCEPT !.stage = "gate", !.rlFailed = FALSE], o |-> o,
        reqs |-> RateLimitRequests]

\* The `.then` of the gate of the function on top of the stack.
AfterGate(c, o) ==
  LET f == Top(c.stack)
      o1 == IF MutatesAfterGate(f.fn, f.auth) THEN SetNormalizeFalse(o) ELSE o
      dep == Dep(f.fn, f.auth)
  IN  IF f.fn = "getOwnerOrgs"
      THEN [c |-> [c EXCEPT !.stage = "owners.getFromUser", !.results = <<>>], o |-> o,
            reqs |-> {Rq("owners.getFromUser", s, 0, 0, "") : s \in Sources}]
      ELSE IF f.fn = "s_GET_ORGS_AUTH"
      THEN [c |-> [c EXCEPT !.stage = "user.get"], o |-> o1,
            reqs |-> {Rq("user.get", 0, 0, 0, "")}]
      ELSE IF dep = "none"
      THEN [c |-> [c EXCEPT !.stage = "orgs.getFromUser", !.results = <<>>], o |-> o1,
            reqs |-> RequestsFor("orgs.getFromUser", <<>>, <<>>)]
      ELSE Descend([c EXCEPT !.stack = Append(@, Frame(dep, o1, FALSE))],
                   IF MutatesAtEntry(dep) THEN SetNormalizeFalse(o1) ELSE o1)

\* orgs[cntr].teams.sort(...) / orgs[cntr].repos.sort(...) at the join of the
\* authenticated team and repository stages.
SortTeams(orgs) ==
  [i \in 1..Len(orgs) |->
     [orgs[i] EXCEPT !.teams = IF @ = None THEN None ELSE Some(Sort(@[1], Names(@[1])))]]

SortRepos(orgs) ==
  [i \in 1..Len(orgs) |->
     [orgs[i] EXCEPT !.repos = IF @ = None THEN None ELSE Some(Sort(@[1], Names(@[1])))]]

\* The raw aggregate the function on top of the stack resolves with.
StageValue(c) ==
  LET f == Top(c.stack)
  IN  CASE c.stage \in {"orgs.getFromUser", "orgs.getMember"} ->
             Sort(c.results, Logins(c.results))
        [] c.stage = "orgs.getTeams" /\ f.fn = "s_GET_ORG_TEAMS_AUTH" -> SortTeams(c.orgs)
        [] c.stage = "orgs.getTeamRepos" -> SortRepos(c.orgs)
        [] c.stage \in {"owners.rateLimit", "owners.getFromUser"} ->
             Sort(c.results, [k \in 1..Len(c.results) |-> c.results[k].owner])
        [] OTHER -> c.orgs

\* `throw new Error('getOrgRepoStats error: unknown category ...')` inside the
\* handler of getOrgRepos: the promise of getOrgRepoStats rejects.
RejectUnknown(c) ==
  [c EXCEPT !.aborted = TRUE, !.promise = "rejected",
            !.reason = [type |-> "unknown category", owner |-> 0]]

RECURSIVE Ret(_, _)
\* The function on top of the stack resolves with `value` (wrapped into
\* {normalized, raw} when its `normalize` is true); its caller goes on.
Ret(c, value) ==
  LET f == Top(c.stack)
      rest == StripTail(Pop(c.stack))
  IN  IF rest = <<>>
      THEN [c |-> [c EXCEPT !.stack = <<>>, !.stage = "done", !.promise = "resolved",
                            !.shape = IF f.normalize THEN "wrapped" ELSE "raw",
                            !.value = value],
            reqs |-> {}]
      ELSE LET p == Top(rest)
               \* the caller loops over `orgs.length`: a wrapped result has none
               got == IF f.normalize THEN <<>> ELSE value
           IN  IF p.fn \in Flatteners
               THEN Ret([c EXCEPT !.stack = rest], Flatten(p.fn, got))
               ELSE LET st == StageOf(p.fn)
                        orgs1 == Prepare(p.fn, got)
                        reqs == RequestsFor(st, orgs1, c.categories)
                        c1 == [c EXCEPT !.stack = rest, !.stage = st, !.orgs = orgs1,
                                        !.results = <<>>]
                    IN  IF st = "repos.stats" /\ UnknownCategoryThrown(orgs1, c.categories)
                        THEN [c |-> RejectUnknown(c1), reqs |-> reqs]
                        ELSE IF reqs = {} THEN Ret(c1, StageValue(c1))
                        ELSE [c |-> c1, reqs |-> reqs]

\* this._optionsURL of an inspector constructed without URL options.
optionsURL ==
  [hostUrlPrefix |-> "https://github.com/",
   rawUrlPrefix |-> "https://raw.githubusercontent.com/"]

\* The `request` call of s_CREATE_REPO_FILE_PROMISES for the repository at
\* place r of organization i and a file path.
FileRequest(i, r, repo, filePath) ==
  [kind |-> "request", org |-> i, team |-> 0, repo |-> r, cat |-> "", path |-> filePath,
   url |-> <<optionsURL.rawUrlPrefix, repo.full_name, "/", repo.default_branch, "/", filePath>>]

\* s_CREATE_REPO_FILE_PROMISES on the repositories of organization i: nothing
\* without file paths; else every repository gets `repo_files = {}` and one
\* request per path.
s_CREATE_REPO_FILE_PROMISES(i, repos, o) ==
  IF o.repoFiles = None \/ o.repoFiles[1] = <<>>
  THEN [repos |-> repos, reqs |-> {}]
  ELSE [repos |-> [r \in 1..Len(repos) |-> [repos[r] EXCEPT !.repo_files = Some(<<>>)]],
        reqs |-> {FileRequest(i, r, repos[r], o.repoFiles[1][k]) :
                    r \in 1..Len(repos), k \in 1..Len(o.repoFiles[1])}]

\* Promise.all of the running stage has resolved.  s_GET_ORG_REPOS_AUTH then
\* sorts the repositories and waits for their file requests.
Complete(c) ==
  IF c.stage = "orgs.getTeamRepos"
  THEN LET sorted == SortRepos(c.orgs)
           created == [i \in 1..Len(sorted) |->
                         s_CREATE_REPO_FILE_PROMISES(i, ReposOf(sorted[i]), options)]
           reqs == UNION {created[i].reqs : i \in 1..Len(sorted)}
           c1 == [c EXCEPT !.stage = "request",
                           !.orgs = [i \in 1..Len(sorted) |->
                                       [sorted[i] EXCEPT !.repos = Some(created[i].repos)]]]
       IN  IF reqs = {} THEN Ret(c, StageValue(c)) ELSE [c |-> c1, reqs |-> reqs]
  ELSE Ret(c, StageValue(c))

\* A request of the running stage rejected its promise.  Below
\* s_GET_ORGS_AUTH the rejection of getOrgs has no handler: the promise that
\* s_GET_ORGS_AUTH returned stays pending.
\* A faulty variant of Reject: the error is dropped and the chain goes on.
RejectDropped(c, reason) == c

Reject(c, reason) ==
  IF c.promise # "pending" \/ c.aborted THEN c
  ELSE IF Top(c.stack).internal THEN [c EXCEPT !.aborted = TRUE]
  ELSE [c EXCEPT !.aborted = TRUE, !.promise = "rejected", !.reason = reason]


\* ------------------------------------------------------------------------
\* What the API may answer.

\* res.resources.core.remaining of a rate-limit response.
RemainingValues == {-1, 0, 1}

\* A listing response: at most MaxListLen distinct entries, the entries of
\* all listings of one call together at most MaxEntities.
Listings(S) ==
  {l \in InjSeqs(S, MaxListLen) : call.entities + Len(l) <= scope.entities}

CategoryChoices == {<<>>, <<"contributors">>, <<"punchCard", "contributors">>}

\* A user record of a listing; `site` tells the response it came in.
Users(l, site) == [k \in 1..Len(l) |-> [login |-> l[k], site |-> site]]

\* ------------------------------------------------------------------------
\* Operations.

InitScope(sc) ==
  /\ scope = sc
  /\ options = [normalize |-> "undefined", skipRateLimitCheck |-> FALSE,
                credential |-> FALSE, categories |-> <<>>, repoFiles |-> None]
  /\ calls = 0
  /\ call = IdleCall
  /\ net = {}
  /\ hist = NoHist
  /\ norm = IdleNorm
  /\ build = IdleBuild
  /\ github = IdleGitHub

\* One call of any query method.
Init ==
  InitScope([ops |-> QueryOps, calls |-> 1, entities |-> MaxEntities,
             credential |-> BOOLEAN, categories |-> CategoryChoices,
             repoFiles |-> {None}])

\* A sequence of calls that pass the same options object.
InitReuse ==
  InitScope([ops |-> QueryOps, calls |-> MaxCalls, entities |-> MaxReuseEntities,
             credential |-> BOOLEAN, categories |-> CategoryChoices,
             repoFiles |-> {None}])

\* One authenticated getOrgRepos, with room for two teams that share a
\* repository.
InitAuthRepos ==
  InitScope([ops |-> {"getOrgRepos"}, calls |-> 1, entities |-> MaxAuthRepoEntities,
             credential |-> {TRUE}, categories |-> {<<>>},
             repoFiles |-> {None}])

\* The previous call has settled, or can make no further step.
Quiescent == net = {} /\ (call.promise # "pending" \/ call.aborted)

\* A top-level call of a query method.  The first call passes a fresh options
\* object, a later call the object the previous call was given.
BeginCall ==
  /\ calls < scope.calls
  /\ Quiescent
  /\ \E op \in scope.ops \cap QueryOps, cred \in scope.credential, cats \in scope.categories,
        files \in scope.repoFiles :
       /\ calls > 0 => ~cred /\ cats = <<>> /\ files = None
       /\ op # "getOrgRepoStats" => cats = <<>>
       /\ LET o0 == IF calls > 0 THEN options
                    ELSE [normalize |-> "undefined", skipRateLimitCheck |-> FALSE,
                          credential |-> cred, categories |-> cats,
                          repoFiles |-> files]
              c0 == [IdleCall EXCEPT !.op = op, !.promise = "pending",
                                     !.stack = <<Frame(op, o0, FALSE)>>,
                                     !.categories = ExpandCategories(o0.categories)]
              o1 == IF MutatesAtEntry(op) THEN SetNormalizeFalse(o0) ELSE o0
              r == Descend(c0, o1)
          IN  /\ call' = r.c
              /\ options' = r.o
              /\ net' = r.reqs
              /\ hist' = [NoHist EXCEPT !.nData = DataCount(r.reqs),
                                        !.nGate = GateCount(r.reqs),
                                        !.normalizeOff = (o0.normalize = "false")]
  /\ calls' = calls + 1
  /\ UNCHANGED <<scope, norm, build, github>>

\* The state after a callback: the request is answered, `reqs` are sent, and
\* when that was the last request of the stage its Promise.all resolves.
\* Once a request of the stage has rejected, nothing can reach the objects
\* the remaining callbacks write to: only the requests they send are kept.
Deliver(req, c, reqs, h) ==
  LET n1 == (net \ {req}) \cup reqs
      h1 == [(IF call.aborted THEN hist ELSE h) EXCEPT !.nData = @ + Cardinality(reqs)]
  IN  IF call.aborted
      THEN /\ call' = call
           /\ net' = n1
           /\ hist' = h1
      ELSE IF n1 = {} /\ ~c.aborted /\ ~c.hung
      THEN LET r == Complete(c)
           IN  /\ call' = r.c
               /\ net' = r.reqs
               /\ hist' = [h1 EXCEPT !.nData = @ + Cardinality(r.reqs)]
      ELSE /\ call' = c
           /\ net' = n1
           /\ hist' = h1

Failed(kind) == [hist EXCEPT !.failed = @ \cup {kind}]

\* The users of a member, collaborator or contributor listing have arrived.
Listed(users) == [hist EXCEPT !.users = @ \cup Range(users)]

\* github.misc.rateLimit callback of s_IS_RATE_LIMIT_REACHED.
RateLimitCallback ==
  \E req \in net :
    /\ req.kind = "misc.rateLimit"
    /\ \/ \* err: the gate rejects; innerResolve is never called
          /\ call' = [Reject(call, [type |-> "unknown error", owner |-> 0])
                        EXCEPT !.rlFailed = TRUE]
          /\ net' = net \ {req}
          /\ hist' = Failed(req.kind)
          /\ UNCHANGED options
       \/ \E remaining \in RemainingValues :
            LET \* `res.resources.core.remaining && ...`: 0 is falsy
                reached == remaining # 0 /\ remaining <= 0
                c1 == IF reached
                      THEN Reject(call, [type |-> "rate limit reached",
                                         owner |-> organizations[req.org].owner])
                      ELSE call
                n1 == net \ {req}
                all == n1 = {} /\ ~c1.rlFailed
                \* getOwnerOrgs passes no options: the flag is set on an
                \* object nobody else holds
                o1 == IF all /\ call.op \notin OwnerOps
                      THEN [options EXCEPT !.skipRateLimitCheck = TRUE] ELSE options
                h1 == [hist EXCEPT
                         !.zeroSeen = IF remaining = 0 THEN @ \cup {req.org} ELSE @,
                         !.exhausted = IF remaining <= 0 THEN @ \cup {req.org} ELSE @]
            IN  IF all /\ ~c1.aborted
                THEN LET r == AfterGate(c1, o1)
                     IN  /\ call' = r.c
                         /\ options' = r.o
                         /\ net' = r.reqs
                         /\ hist' = [h1 EXCEPT !.nData = @ + DataCount(r.reqs),
                                               !.nGate = @ + GateCount(r.reqs)]
                ELSE /\ call' = c1
                     /\ options' = o1
                     /\ net' = n1
                     /\ hist' = h1
    /\ UNCHANGED <<scope, norm, build, github, calls>>

\* A faulty variant of UserCallback: no `user === null` test.
UserCallbackUnchecked ==
  \E req \in net :
    /\ req.kind = "user.get"
    /\ \E failed \in BOOLEAN :
         LET c1 == [call EXCEPT !.stack = Append(@, Frame("getOrgs", InternalOptions, TRUE))]
             r == Descend(c1, options)
         IN  /\ call' = r.c
             /\ net' = (net \ {req}) \cup r.reqs
             /\ hist' = [(IF failed THEN [Failed(req.kind) EXCEPT !.userFailed = TRUE]
                          ELSE hist)
                         EXCEPT !.nData = @ + DataCount(r.reqs),
                                !.nGate = @ + GateCount(r.reqs)]
    /\ UNCHANGED <<scope, norm, build, github, options, calls>>

\* github.user.get callback of s_GET_USER, and the `.then` of s_GET_ORGS_AUTH.
UserCallback ==
  \E req \in net :
    /\ req.kind = "user.get"
    /\ \/ \* err: resolve(null), then reject('user authentication failed')
          /\ call' = Reject(call, [type |-> "user authentication failed", owner |-> 0])
          /\ net' = net \ {req}
          /\ hist' = [Failed(req.kind) EXCEPT !.userFailed = TRUE]
       \/ \* res: getOrgs({ normalize: false, skipRateLimitCheck: true })
          LET c1 == [call EXCEPT !.stack = Append(@, Frame("getOrgs", InternalOptions, TRUE))]
              r == Descend(c1, options)
          IN  /\ call' = r.c
              /\ net' = (net \ {req}) \cup r.reqs
              /\ hist' = [hist EXCEPT !.nData = @ + DataCount(r.reqs),
                                      !.nGate = @ + GateCount(r.reqs)]
    /\ UNCHANGED <<scope, norm, build, github, options, calls>>

\* A faulty variant of Matching: no regex filter.
MatchingUnfiltered(source, l) ==
  [k \in 1..Len(l) |-> Org(l[k], source.credential)]

\* The organizations of listing `l` that pass the source's regex, each with
\* the source's credential attached.
Matching(source, l) ==
  LET keep == SelectSeq(l, LAMBDA login : login \in source.regex)
  IN  [k \in 1..Len(keep) |-> Org(keep[k], source.credential)]

\* A faulty variant of GetFromUserCallback: an organization another source
\* has brought already is not pushed again.
GetFromUserCallbackOncePerLogin ==
  \E req \in net :
    /\ req.kind = "orgs.getFromUser"
    /\ \/ Deliver(req, Reject(call, [type |-> "err", owner |-> 0]), {}, Failed(req.kind))
       \/ \E l \in Listings(OrgLogins) :
            Deliver(req,
                    [call EXCEPT !.results =
                       @ \o SelectSeq(Matching(organizations[req.org], l),
                                      LAMBDA org : org.login \notin Range(Logins(call.results))),
                                 !.entities = @ + Len(l)],
                    {},
                    [hist EXCEPT !.listed =
                       @ \cup {<<l[k], req.org>> : k \in 1..Len(l)}])
    /\ UNCHANGED <<scope, norm, build, github, options, calls>>

\* github.orgs.getFromUser callback of getOrgs.
GetFromUserCallback ==
  \E req \in net :
    /\ req.kind = "orgs.getFromUser"
    /\ \/ Deliver(req, Reject(call, [type |-> "err", owner |-> 0]), {}, Failed(req.kind))
       \/ \E l \in Listings(OrgLogins) :
            Deliver(req,
                    [call EXCEPT !.results = @ \o Matching(organizations[req.org], l),
                                 !.entities = @ + Len(l)],
                    {},
                    [hist EXCEPT !.listed =
                       @ \cup {<<l[k], req.org>> : k \in 1..Len(l)}])
    /\ UNCHANGED <<scope, norm, build, github, options, calls>>

\* A faulty variant of GetMemberCallback: a failed probe keeps the organization.
GetMemberCallbackKeepingAll ==
  \E req \in net :
    /\ req.kind = "orgs.getMember"
    /\ \/ Deliver(req, [call EXCEPT !.results = Append(@, call.orgs[req.org])], {},
                  Failed(req.kind))
       \/ LET org == [call.orgs[req.org] EXCEPT !.auth_user = TRUE]
          IN  Deliver(req,
                      [call EXCEPT !.orgs[req.org] = org, !.results = Append(@, org)],
                      {},
                      [hist EXCEPT !.memberOK = @ \cup {req.org}])
    /\ UNCHANGED <<scope, norm, build, github, options, calls>>

\* github.orgs.getMember callback of s_GET_ORGS_AUTH.
GetMemberCallback ==
  \E req \in net :
    /\ req.kind = "orgs.getMember"
    /\ \/ Deliver(req, call, {}, Failed(req.kind))
       \/ LET org == [call.orgs[req.org] EXCEPT !.auth_user = TRUE]
          IN  Deliver(req,
                      [call EXCEPT !.orgs[req.org] = org, !.results = Append(@, org)],
                      {},
                      [hist EXCEPT !.memberOK = @ \cup {req.org}])
    /\ UNCHANGED <<scope, norm, build, github, options, calls>>


Teams(l) == [k \in 1..Len(l) |-> Team(l[k])]

Repos(l) == [k \in 1..Len(l) |-> Repo(l[k])]

SortedUsers(l, site) == LET u == Users(l, site) IN Sort(u, Logins(u))

\* github.orgs.getTeams callback of getOrgTeams (a failure is skipped) and of
\* s_GET_ORG_TEAMS_AUTH (a failure rejects; every listed team is probed).
GetTeamsCallback ==
  \E req \in net :
    /\ req.kind = "orgs.getTeams"
    /\ LET authenticated == Top(call.stack).fn = "s_GET_ORG_TEAMS_AUTH"
       IN  \/ Deliver(req,
                      IF authenticated THEN Reject(call, [type |-> "err", owner |-> 0])
                      ELSE call,
                      {}, Failed(req.kind))
           \/ \E l \in Listings(Keys) :
                LET h1 == IF authenticated
                          THEN [hist EXCEPT !.teamListed =
                                  @ \cup {<<req.org, l[k]>> : k \in 1..Len(l)}]
                          ELSE hist
                    c1 == [call EXCEPT !.entities = @ + Len(l)]
                IN  IF authenticated
                    THEN Deliver(req, c1,
                                 {Rq("orgs.getTeamMember", req.org, l[k], 0, "") :
                                    k \in 1..Len(l)},
                                 h1)
                    ELSE Deliver(req,
                                 [c1 EXCEPT !.orgs[req.org].teams =
                                    Some(Sort(Teams(l), Names(Teams(l))))],
                                 {}, h1)
    /\ UNCHANGED <<scope, norm, build, github, options, calls>>

\* A faulty variant of GetTeamMemberCallback: a failed probe keeps the team.
GetTeamMemberCallbackKeepingAll ==
  \E req \in net :
    /\ req.kind = "orgs.getTeamMember"
    /\ \/ Deliver(req,
                  [call EXCEPT !.orgs[req.org].teams = Some(Append(@[1], Team(req.team)))],
                  {}, Failed(req.kind))
       \/ Deliver(req,
                  [call EXCEPT !.orgs[req.org].teams = Some(Append(@[1], Team(req.team)))],
                  {},
                  [hist EXCEPT !.teamOK = @ \cup {<<req.org, req.team>>}])
    /\ UNCHANGED <<scope, norm, build, github, options, calls>>

\* github.orgs.getTeamMember callback of s_GET_ORG_TEAMS_AUTH.
GetTeamMemberCallback ==
  \E req \in net :
    /\ req.kind = "orgs.getTeamMember"
    /\ \/ Deliver(req, call, {}, Failed(req.kind))
       \/ Deliver(req,
                  [call EXCEPT !.orgs[req.org].teams = Some(Append(@[1], Team(req.team)))],
                  {},
                  [hist EXCEPT !.teamOK = @ \cup {<<req.org, req.team>>}])
    /\ UNCHANGED <<scope, norm, build, github, options, calls>>

\* github.orgs.getTeamMembers callback of getOrgTeamMembers.
GetTeamMembersCallback ==
  \E req \in net :
    /\ req.kind = "orgs.getTeamMembers"
    /\ \/ Deliver(req, call, {}, Failed(req.kind))
       \/ \E l \in Listings(Keys) :
            Deliver(req,
                    [call EXCEPT !.orgs[req.org].teams[1][req.team].members =
                                   Some(Users(l, <<req.org, req.team>>)),
                                 !.entities = @ + Len(l)],
                    {}, hist)
    /\ UNCHANGED <<scope, norm, build, github, options, calls>>

\* github.orgs.getMembers callback of getOrgMembers.
GetMembersCallback ==
  \E req \in net :
    /\ req.kind = "orgs.getMembers"
    /\ \/ Deliver(req, Reject(call, [type |-> "err", owner |-> 0]), {}, Failed(req.kind))
       \/ \E l \in Listings(Keys) :
            Deliver(req,
                    [call EXCEPT !.orgs[req.org].members = Some(SortedUsers(l, <<req.org, 0>>)),
                                 !.entities = @ + Len(l)],
                    {}, Listed(Users(l, <<req.org, 0>>)))
    /\ UNCHANGED <<scope, norm, build, github, options, calls>>

\* github.repos.getFromOrg callback of getOrgRepos.
GetFromOrgCallback ==
  \E req \in net :
    /\ req.kind = "repos.getFromOrg"
    /\ \/ Deliver(req, Reject(call, [type |-> "err", owner |-> 0]), {}, Failed(req.kind))
       \/ \E l \in Listings(Keys) :
            LET created == s_CREATE_REPO_FILE_PROMISES(
                             req.org, Sort(Repos(l), Names(Repos(l))), options)
            IN  Deliver(req,
                        [call EXCEPT !.orgs[req.org].repos = Some(created.repos),
                                     !.entities = @ + Len(l)],
                        created.reqs, hist)
    /\ UNCHANGED <<scope, norm, build, github, options, calls>>

\* What a raw-file fetch may answer with.
FileResponses == [statusCode : {200, 404, 500}, body : {"x", "y"}]

\* A faulty variant of FileCallback: the callback writes to the property of
\* the last requested path.
FileCallbackLastPath ==
  \E req \in net :
    /\ req.kind = "request"
    /\ \/ \E response \in FileResponses :
            Deliver(req,
                    [call EXCEPT !.orgs[req.org].repos[1][req.repo].repo_files =
                       Some((options.repoFiles[1][Len(options.repoFiles[1])] :> response)
                            @@ @[1])],
                    {},
                    [hist EXCEPT !.files = @ \cup {<<req.org, req.repo, req.path, response>>}])
       \/ Deliver(req, [call EXCEPT !.hung = TRUE], {}, Failed(req.kind))
    /\ UNCHANGED <<scope, norm, build, github, options, calls>>

\* The `request` callback of s_CREATE_REPO_FILE_PROMISES.  On a transport
\* failure there is no response: reading response.statusCode throws and the
\* promise of the fetch is never settled.
FileCallback ==
  \E req \in net :
    /\ req.kind = "request"
    /\ \/ \E response \in FileResponses :
            Deliver(req,
                    [call EXCEPT !.orgs[req.org].repos[1][req.repo].repo_files =
                       Some((req.path :> response) @@ @[1])],
                    {},
                    [hist EXCEPT !.files = @ \cup {<<req.org, req.repo, req.path, response>>}])
       \/ Deliver(req, [call EXCEPT !.hung = TRUE], {}, Failed(req.kind))
    /\ UNCHANGED <<scope, norm, build, github, options, calls>>

\* A faulty variant of PushNew: no duplicateReject test.
PushAll(repos, l) == repos \o Repos(l)

RECURSIVE PushNew(_, _)
\* `if (typeof duplicateReject[repo.name] === 'undefined') { org.repos.push(repo); ... }`
PushNew(repos, l) ==
  IF l = <<>> THEN repos
  ELSE IF Head(l) \in Range(Names(repos)) THEN PushNew(repos, Tail(l))
       ELSE PushNew(Append(repos, Repo(Head(l))), Tail(l))

\* github.orgs.getTeamRepos callback of s_GET_ORG_REPOS_AUTH.
GetTeamReposCallback ==
  \E req \in net :
    /\ req.kind = "orgs.getTeamRepos"
    /\ \/ Deliver(req, Reject(call, [type |-> "err", owner |-> 0]), {}, Failed(req.kind))
       \/ \E l \in Listings(Keys) :
            Deliver(req,
                    [call EXCEPT !.orgs[req.org].repos = Some(PushNew(@[1], l)),
                                 !.entities = @ + Len(l)],
                    {},
                    [hist EXCEPT !.teamRepos =
                       @ \cup {<<req.org, req.team, l[k]>> : k \in 1..Len(l)}])
    /\ UNCHANGED <<scope, norm, build, github, options, calls>>

\* github.repos.getCollaborators callback of getOrgRepoCollaborators.
GetCollaboratorsCallback ==
  \E req \in net :
    /\ req.kind = "repos.getCollaborators"
    /\ \/ Deliver(req, call, {}, Failed(req.kind))
       \/ \E l \in Listings(Keys) :
            Deliver(req,
                    [call EXCEPT !.orgs[req.org].repos[1][req.repo].collaborators =
                                   Some(SortedUsers(l, <<req.org, req.repo>>)),
                                 !.entities = @ + Len(l)],
                    {}, Listed(Users(l, <<req.org, req.repo>>)))
    /\ UNCHANGED <<scope, norm, build, github, options, calls>>

\* github.repos.getContributors callback of getOrgRepoContributors.
GetContributorsCallback ==
  \E req \in net :
    /\ req.kind = "repos.getContributors"
    /\ \/ Deliver(req, call, {}, Failed(req.kind))
       \/ \E l \in Listings(Keys) :
            Deliver(req,
                    [call EXCEPT !.orgs[req.org].repos[1][req.repo].contributors =
                                   Some(SortedUsers(l, <<req.org, req.repo>>)),
                                 !.entities = @ + Len(l)],
                    {}, Listed(Users(l, <<req.org, req.repo>>)))
    /\ UNCHANGED <<scope, norm, build, github, options, calls>>

\* The keys of the raw object repo.stats[0]: a key per answered category,
\* and `_resultsPending` once a response was the still-computing marker.
RawStatKeys(stats) ==
  {k[1] : k \in stats.keys} \cup (IF stats.resultsPending THEN {"_resultsPending"} ELSE {})

\* The keys of the normalized statistics entry: s_NORMALIZE_STATS copies the
\* known categories whose raw value is truthy.
NormalizedStatKeys(stats) ==
  {k[1] : k \in {x \in stats.keys : x[1] \in StatCategories /\ x[2] # "empty"}}

\* The statistics responses: completed data, the still-computing marker
\* (an object with `meta`), or an empty value.
StatResults == {"data", "meta", "empty"}

\* A faulty variant of StatsCallback: the flag follows the last response.
StatsCallbackLastWins ==
  \E req \in net :
    /\ req.kind = "repos.stats"
    /\ \/ Deliver(req, Reject(call, [type |-> "err", owner |-> 0]), {}, Failed(req.kind))
       \/ \E results \in StatResults :
            Deliver(req,
                    [call EXCEPT !.orgs[req.org].repos[1][req.repo].stats =
                       Some([resultsPending |-> results = "meta",
                             keys |-> {k \in @[1].keys : k[1] # req.cat}
                                      \cup {<<req.cat, results>>}])],
                    {},
                    [hist EXCEPT !.pending =
                       IF results = "meta" THEN @ \cup {<<req.org, req.repo>>} ELSE @])
    /\ UNCHANGED <<scope, norm, build, github, options, calls>>

\* github.repos[functionName] callback of getOrgRepoStats.
StatsCallback ==
  \E req \in net :
    /\ req.kind = "repos.stats"
    /\ \/ Deliver(req, Reject(call, [type |-> "err", owner |-> 0]), {}, Failed(req.kind))
       \/ \E results \in StatResults :
            Deliver(req,
                    [call EXCEPT !.orgs[req.org].repos[1][req.repo].stats =
                       Some([resultsPending |-> @[1].resultsPending \/ results = "meta",
                             keys |-> {k \in @[1].keys : k[1] # req.cat}
                                      \cup {<<req.cat, results>>}])],
                    {},
                    [hist EXCEPT !.pending =
                       IF results = "meta" THEN @ \cup {<<req.org, req.repo>>} ELSE @])
    /\ UNCHANGED <<scope, norm, build, github, options, calls>>

Next ==
  \/ BeginCall
  \/ RateLimitCallback
  \/ UserCallback
  \/ GetFromUserCallback
  \/ GetMemberCallback
  \/ GetTeamsCallback
  \/ GetTeamMemberCallback
  \/ GetTeamMembersCallback
  \/ GetMembersCallback
  \/ GetFromOrgCallback
  \/ GetTeamReposCallback
  \/ GetCollaboratorsCallback
  \/ GetContributorsCallback
  \/ StatsCallback

Spec == Init /\ [][Next]_vars

SpecReuse == InitReuse /\ [][Next]_vars

\* The category lists getOrgRepoStats is called with: one category, the
\* wildcard, and lists with a name that is no category.
StatsCategoryChoices ==
  {<<"contributors">>, <<"all">>, <<"bogus">>, <<"contributors", "bogus">>}

\* One unauthenticated call of getOrgRepoStats, with room for one repository.
InitStats ==
  InitScope([ops |-> {"getOrgRepoStats"}, calls |-> 1, entities |-> MaxStatsEntities,
             credential |-> {FALSE}, categories |-> StatsCategoryChoices,
             repoFiles |-> {None}])

\* The callbacks an unauthenticated getOrgRepoStats can receive.
NextStats ==
  \/ BeginCall
  \/ RateLimitCallback
  \/ GetFromUserCallback
  \/ GetFromOrgCallback
  \/ StatsCallback

SpecStats == InitStats /\ [][NextStats]_vars

\* The `repoFiles` option: absent, empty, one path, two paths.
RepoFilesChoices ==
  {None, Some(<<>>), Some(<<"package.json">>), Some(<<"package.json", ".travis.yml">>)}

\* One call of getOrgRepos, with or without file paths.
InitFiles ==
  InitScope([ops |-> {"getOrgRepos"}, calls |-> 1, entities |-> MaxFileEntities,
             credential |-> BOOLEAN, categories |-> {<<>>},
             repoFiles |-> RepoFilesChoices])

\* The callbacks getOrgRepos can receive.
NextFiles ==
  \/ BeginCall
  \/ RateLimitCallback
  \/ UserCallback
  \/ GetFromUserCallback
  \/ GetMemberCallback
  \/ GetTeamsCallback
  \/ GetTeamMemberCallback
  \/ GetTeamReposCallback
  \/ GetFromOrgCallback
  \/ FileCallback

SpecFiles == InitFiles /\ [][NextFiles]_vars

\* One call of getCollaborators, getContributors or getMembers, with room for
\* a login that occurs in two listings.
InitFlatten ==
  InitScope([ops |-> Flatteners, calls |-> 1, entities |-> MaxFlattenEntities,
             credential |-> BOOLEAN, categories |-> {<<>>},
             repoFiles |-> {None}])

\* The callbacks getCollaborators, getContributors and getMembers can receive.
NextFlatten ==
  \/ BeginCall
  \/ RateLimitCallback
  \/ UserCallback
  \/ GetFromUserCallback
  \/ GetMemberCallback
  \/ GetTeamsCallback
  \/ GetTeamMemberCallback
  \/ GetMembersCallback
  \/ GetFromOrgCallback
  \/ GetTeamReposCallback
  \/ GetCollaboratorsCallback
  \/ GetContributorsCallback

SpecFlatten == InitFlatten /\ [][NextFlatten]_vars

\* One call of getOrgTeamMembers, with room for a team of two members.
InitTeamMembers ==
  InitScope([ops |-> {"getOrgTeamMembers"}, calls |-> 1, entities |-> MaxTeamMemberEntities,
             credential |-> BOOLEAN, categories |-> {<<>>},
             repoFiles |-> {None}])

\* The callbacks getOrgTeamMembers can receive.
NextTeamMembers ==
  \/ BeginCall
  \/ RateLimitCallback
  \/ UserCallback
  \/ GetFromUserCallback
  \/ GetMemberCallback
  \/ GetTeamsCallback
  \/ GetTeamMemberCallback
  \/ GetTeamMembersCallback

SpecTeamMembers == InitTeamMembers /\ [][NextTeamMembers]_vars

\* The callbacks an authenticated getOrgRepos can receive.
NextAuthRepos ==
  \/ BeginCall
  \/ RateLimitCallback
  \/ UserCallback
  \/ GetFromUserCallback
  \/ GetMemberCallback
  \/ GetTeamsCallback
  \/ GetTeamMemberCallback
  \/ GetTeamReposCallback

SpecAuthRepos == InitAuthRepos /\ [][NextAuthRepos]_vars


\* ------------------------------------------------------------------------
\* The owner queries.

\* s_NORMALIZE_OWNER on an entry of this._organizations, with this._optionsURL.
NormalizedOwner(organization) ==
  [name |-> organization.owner,
   url |-> <<optionsURL.hostUrlPrefix, organization.owner>>]

\* A faulty variant of getOwners: the owners are left in configuration order.
getOwnersUnsorted == [s \in Sources |-> NormalizedOwner(organizations[s])]

\* The value getOwners resolves with: the normalized owners, sorted by name.
getOwners ==
  LET owners == [s \in Sources |-> NormalizedOwner(organizations[s])]
  IN  Sort(owners, Names(owners))

\* A top-level call of getOwners, getOwnerRateLimits or getOwnerOrgs.
BeginOwnerCall ==
  /\ calls < scope.calls
  /\ Quiescent
  /\ \E op \in scope.ops \cap OwnerOps :
       LET c0 == [IdleCall EXCEPT !.op = op, !.promise = "pending",
                                  !.stack = <<Frame(op, DefaultOptions, FALSE)>>]
       IN  CASE op = "getOwners" ->
                  \* Promise.resolve({ normalized, raw: normalized })
                  /\ call' = [c0 EXCEPT !.stack = <<>>, !.stage = "done",
                                         !.promise = "resolved", !.shape = "wrapped",
                                         !.value = getOwners]
                  /\ net' = {}
                  /\ hist' = NoHist
             [] op = "getOwnerRateLimits" ->
                  LET reqs == {Rq("owners.rateLimit", s, 0, 0, "") : s \in Sources}
                  IN  /\ call' = [c0 EXCEPT !.stage = "owners.rateLimit"]
                      /\ net' = reqs
                      /\ hist' = [NoHist EXCEPT !.nData = Cardinality(reqs)]
             [] op = "getOwnerOrgs" ->
                  LET r == Descend(c0, DefaultOptions)
                  IN  /\ call' = r.c
                      /\ net' = r.reqs
                      /\ hist' = [NoHist EXCEPT !.nData = DataCount(r.reqs),
                                                !.nGate = GateCount(r.reqs)]
  /\ calls' = calls + 1
  /\ UNCHANGED <<scope, norm, build, github, options>>

\* A faulty variant of GetOwnerRateLimitsCallback: a source without quota
\* rejects the call.
GetOwnerRateLimitsCallbackGated ==
  \E req \in net :
    /\ req.kind = "owners.rateLimit"
    /\ \/ Deliver(req, Reject(call, [type |-> "err", owner |-> 0]), {}, Failed(req.kind))
       \/ \E remaining \in RemainingValues :
            Deliver(req,
                    IF remaining <= 0
                    THEN Reject(call, [type |-> "rate limit reached",
                                       owner |-> organizations[req.org].owner])
                    ELSE [call EXCEPT !.results =
                            Append(@, [owner |-> organizations[req.org].owner,
                                       ratelimit |-> <<[remaining |-> remaining]>>])],
                    {},
                    [hist EXCEPT !.quota = @ \cup {<<req.org, remaining>>}])
    /\ UNCHANGED <<scope, norm, build, github, options, calls>>

\* github.misc.rateLimit callback of getOwnerRateLimits.
GetOwnerRateLimitsCallback ==
  \E req \in net :
    /\ req.kind = "owners.rateLimit"
    /\ \/ Deliver(req, Reject(call, [type |-> "err", owner |-> 0]), {}, Failed(req.kind))
       \/ \E remaining \in RemainingValues :
            Deliver(req,
                    [call EXCEPT !.results =
                       Append(@, [owner |-> organizations[req.org].owner,
                                  ratelimit |-> <<[remaining |-> remaining]>>])],
                    {},
                    [hist EXCEPT !.quota = @ \cup {<<req.org, remaining>>}])
    /\ UNCHANGED <<scope, norm, build, github, options, calls>>

\* A faulty variant of OwnerOrgs: no regex filter.
OwnerOrgsUnfiltered(source, l) ==
  LET results == [k \in 1..Len(l) |-> [login |-> l[k]]]
  IN  [owner |-> source.owner, orgs |-> Sort(results, Logins(results))]

\* The entry getOwnerOrgs pushes for a source that listed `l`: the
\* organizations that pass the source's regex, sorted by login.
OwnerOrgs(source, l) ==
  LET keep == SelectSeq(l, LAMBDA login : login \in source.regex)
      results == [k \in 1..Len(keep) |-> [login |-> keep[k]]]
  IN  [owner |-> source.owner, orgs |-> Sort(results, Logins(results))]

\* github.orgs.getFromUser callback of getOwnerOrgs.
GetOwnerOrgsCallback ==
  \E req \in net :
    /\ req.kind = "owners.getFromUser"
    /\ \/ Deliver(req, Reject(call, [type |-> "err", owner |-> 0]), {}, Failed(req.kind))
       \/ \E l \in Listings(OrgLogins) :
            Deliver(req,
                    [call EXCEPT !.results = Append(@, OwnerOrgs(organizations[req.org], l)),
                                 !.entities = @ + Len(l)],
                    {},
                    [hist EXCEPT !.listed =
                       @ \cup {<<l[k], req.org>> : k \in 1..Len(l)}])
    /\ UNCHANGED <<scope, norm, build, github, options, calls>>

\* One call of an owner query.
InitOwners ==
  InitScope([ops |-> OwnerOps, calls |-> 1, entities |-> MaxOwnerEntities,
             credential |-> {FALSE}, categories |-> {<<>>}, repoFiles |-> {None}])

NextOwners ==
  \/ BeginOwnerCall
  \/ RateLimitCallback
  \/ GetOwnerRateLimitsCallback
  \/ GetOwnerOrgsCallback

SpecOwners == InitOwners /\ [][NextOwners]_vars

\* One call of any operation that runs the gate: a query method or
\* getOwnerOrgs.
InitGated ==
  InitScope([ops |-> QueryOps \cup {"getOwnerOrgs"}, calls |-> 1, entities |-> MaxEntities,
             credential |-> BOOLEAN, categories |-> CategoryChoices,
             repoFiles |-> {None}])

NextGated ==
  \/ Next
  \/ BeginOwnerCall
  \/ GetOwnerOrgsCallback

SpecGated == InitGated /\ [][NextGated]_vars

\* ------------------------------------------------------------------------
\* The normalizer (GitHubNormalize.js).  A JavaScript object is a function
\* from the names of the properties it has; an array is a sequence.  The
\* value of a statistics category is wrapped so that an array can be told
\* from any other object.

\* `{}`
Empty == [k \in {} |-> 0]

Has(o, f) == f \in DOMAIN o

\* An object with property f when `opt` holds a value, `{}` otherwise.
Field(f, opt) == IF opt = None THEN Empty ELSE f :> opt[1]

\* `o.f ? o.f : d` for a string, a number and a boolean property.
StrOr(o, f, d) == IF Has(o, f) /\ o[f] # "" THEN o[f] ELSE d

NumOr(o, f, d) == IF Has(o, f) /\ o[f] # 0 THEN o[f] ELSE d

BoolOr(o, f) == Has(o, f) /\ o[f]

\* A statistics value that is an array, and the object GitHub answers while
\* it is still computing.
Array(items) == [array |-> TRUE, items |-> items]

Placeholder == [array |-> FALSE, meta |-> "202 Accepted"]

\* Array.isArray(o[f]); a property that holds a list or an object is wrapped
\* as above.
IsArray(o, f) == Has(o, f) /\ o[f].array

HostUrlPrefix(o) == IF Has(o, "hostUrlPrefix") THEN o.hostUrlPrefix ELSE "undefined"

s_NORMALIZE_USER(user) ==
  [name |-> StrOr(user, "login", ""),
   id |-> NumOr(user, "id", -1),
   url |-> StrOr(user, "html_url", ""),
   avatar_url |-> StrOr(user, "avatar_url", "")]

\* A faulty variant of s_NORMALIZE_ORG: the other properties of the raw
\* organization are carried over.
s_NORMALIZE_ORG_Spread(org, o) ==
  [name |-> StrOr(org, "login", ""),
   id |-> NumOr(org, "id", -1),
   url |-> <<HostUrlPrefix(o), StrOr(org, "login", "")>>,
   avatar_url |-> StrOr(org, "avatar_url", ""),
   description |-> StrOr(org, "description", "")] @@ org

s_NORMALIZE_ORG(org, o) ==
  [name |-> StrOr(org, "login", ""),
   id |-> NumOr(org, "id", -1),
   url |-> <<HostUrlPrefix(o), StrOr(org, "login", "")>>,
   avatar_url |-> StrOr(org, "avatar_url", ""),
   description |-> StrOr(org, "description", "")]

s_NORMALIZE_OWNER(owner, o) ==
  [name |-> StrOr(owner, "owner", ""),
   url |-> <<HostUrlPrefix(o), StrOr(owner, "owner", "")>>]

s_NORMALIZE_RATE_LIMIT(ratelimit) ==
  [core |-> [limit |-> ratelimit.resources.core.limit,
             remaining |-> ratelimit.resources.core.remaining,
             reset |-> ratelimit.resources.core.reset * 1000],
   search |-> [limit |-> ratelimit.resources.search.limit,
               remaining |-> ratelimit.resources.search.remaining,
               reset |-> ratelimit.resources.search.reset * 1000]]

s_NORMALIZE_REPO(repo) ==
  [name |-> StrOr(repo, "name", ""),
   full_name |-> StrOr(repo, "full_name", ""),
   id |-> NumOr(repo, "id", -1),
   url |-> StrOr(repo, "html_url", ""),
   description |-> StrOr(repo, "description", ""),
   private |-> BoolOr(repo, "private"),
   repo_files |-> IF Has(repo, "repo_files") THEN repo.repo_files ELSE Empty,
   fork |-> BoolOr(repo, "fork"),
   created_at |-> StrOr(repo, "created_at", ""),
   updated_at |-> StrOr(repo, "updated_at", ""),
   pushed_at |-> StrOr(repo, "pushed_at", ""),
   git_url |-> StrOr(repo, "git_url", ""),
   ssh_url |-> StrOr(repo, "ssh_url", ""),
   clone_url |-> StrOr(repo, "clone_url", ""),
   stargazers_count |-> NumOr(repo, "stargazers_count", 0),
   watchers_count |-> NumOr(repo, "watchers_count", 0),
   default_branch |-> StrOr(repo, "default_branch", "")]

\* A faulty variant of s_NORMALIZE_TEAM: only the properties the team has.
s_NORMALIZE_TEAM_Sparse(team) ==
  Field("name", IF Has(team, "name") THEN Some(team.name) ELSE None)
  @@ Field("id", IF Has(team, "id") THEN Some(team.id) ELSE None)
  @@ Field("privacy", IF Has(team, "privacy") THEN Some(team.privacy) ELSE None)
  @@ Field("permission", IF Has(team, "permission") THEN Some(team.permission) ELSE None)
  @@ Field("description", IF Has(team, "description") THEN Some(team.description) ELSE None)

s_NORMALIZE_TEAM(team) ==
  [name |-> StrOr(team, "name", ""),
   id |-> NumOr(team, "id", -1),
   privacy |-> StrOr(team, "privacy", ""),
   permission |-> StrOr(team, "permission", ""),
   description |-> StrOr(team, "description", "")]

\* `if (contributor.author) { contributor.author = s_NORMALIZE_USER(contributor.author); }`
NormalizeAuthor(contributor) ==
  IF Has(contributor, "author")
  THEN [contributor EXCEPT !.author = s_NORMALIZE_USER(@)]
  ELSE contributor

\* s_NORMALIZE_STATS: the normalized statistics object `out`, and the raw
\* object as the function leaves it.  The contributor objects pushed into
\* `out` are the raw ones, written in place.
s_NORMALIZE_STATS(stats) ==
  LET Copied(f) == IF Has(stats, f) THEN f :> stats[f] ELSE Empty
      Lists(f) ==
        IF ~Has(stats, f) THEN Empty
        ELSE f :> Array(IF stats[f].array
                        THEN [k \in 1..Len(stats[f].items) |->
                                s_NORMALIZE_USER(stats[f].items[k])]
                        ELSE <<>>)
      completed == Has(stats, "contributors") /\ stats.contributors.array
      written == IF completed
                 THEN [k \in 1..Len(stats.contributors.items) |->
                         NormalizeAuthor(stats.contributors.items[k])]
                 ELSE <<>>
  IN  [out |-> Copied("codeFrequency") @@ Copied("commitActivity")
               @@ Copied("participation") @@ Copied("punchCard")
               @@ (IF completed THEN "contributors" :> Array(written)
                   ELSE Copied("contributors"))
               @@ Lists("stargazers") @@ Lists("watchers"),
       raw |-> IF completed THEN [stats EXCEPT !.contributors = Array(written)]
               ELSE stats]

KnownCategories ==
  {"authors", "collaborators", "contributors", "members", "users", "orgs", "owners",
   "ratelimit", "repos", "stats", "teams"}

\* s_GET_NORMALIZE_FUNCTION(category) applied to one element.
NormalizeElement(category, element, o) ==
  CASE category \in {"authors", "collaborators", "contributors", "members", "users"} ->
         [out |-> s_NORMALIZE_USER(element), raw |-> element]
    [] category = "orgs" -> [out |-> s_NORMALIZE_ORG(element, o), raw |-> element]
    [] category = "owners" -> [out |-> s_NORMALIZE_OWNER(element, o), raw |-> element]
    [] category = "ratelimit" -> [out |-> s_NORMALIZE_RATE_LIMIT(element), raw |-> element]
    [] category = "repos" -> [out |-> s_NORMALIZE_REPO(element), raw |-> element]
    [] category = "stats" -> s_NORMALIZE_STATS(element)
    [] category = "teams" -> [out |-> s_NORMALIZE_TEAM(element), raw |-> element]

RECURSIVE s_DEPTH_NORMALIZE(_, _, _, _)
\* The normalized entries of `data` at `depth` (the first category has depth
\* 1), the raw data as the walk leaves it, and whether the walk threw.
s_DEPTH_NORMALIZE(categories, data, depth, o) ==
  LET category == IF depth <= Len(categories) THEN categories[depth] ELSE "undefined"
      nextCategory == IF depth < Len(categories) THEN categories[depth + 1] ELSE ""
  IN  IF category \notin KnownCategories
      THEN [thrown |-> TRUE, out |-> <<>>, raw |-> data]
      ELSE LET Entry(k) ==
                 LET results == NormalizeElement(category, data[k], o)
                 IN  IF nextCategory # "" /\ IsArray(results.raw, nextCategory)
                     THEN LET nextResults ==
                                s_DEPTH_NORMALIZE(categories, results.raw[nextCategory].items,
                                                  depth + 1, o)
                          IN  [thrown |-> nextResults.thrown,
                               out |-> (nextCategory :> Array(nextResults.out)) @@ results.out,
                               raw |-> [results.raw EXCEPT
                                          ![nextCategory] = Array(nextResults.raw)]]
                     ELSE [thrown |-> FALSE, out |-> results.out, raw |-> results.raw]
               entries == [k \in 1..Len(data) |-> Entry(k)]
               thrown == {k \in 1..Len(data) : entries[k].thrown}
           IN  IF thrown = {}
               THEN [thrown |-> FALSE,
                     out |-> [k \in 1..Len(data) |-> entries[k].out],
                     raw |-> [k \in 1..Len(data) |-> entries[k].raw]]
               ELSE [thrown |-> TRUE, out |-> <<>>,
                     raw |-> [k \in 1..Len(data) |->
                                IF \E j \in thrown : j < k THEN data[k] ELSE entries[k].raw]]

\* new Date() under a fixed clock.
Clock == "timestamp"

\* normalizeCategories(categories, raw, options)
normalizeCategories(categories, raw, o) ==
  LET walked == s_DEPTH_NORMALIZE(categories, raw, 1, o)
  IN  [thrown |-> walked.thrown,
       value |-> IF walked.thrown THEN Empty
                 ELSE (categories[1] :> walked.out)
                      @@ [scm |-> "github", categories |-> categories, timestamp |-> Clock],
       raw |-> walked.raw]

\* Raw data the normalizer is given.
RawUsers ==
  {[login |-> "a", id |-> 1, html_url |-> "url-a", avatar_url |-> "avatar-a"],
   [login |-> "b"]}

RawContributors ==
  {[total |-> 1, author |-> u] : u \in RawUsers} \cup {[total |-> 2]}

RECURSIVE SeqsUpTo(_, _)
\* The sequences over S of length at most n.
SeqsUpTo(S, n) ==
  IF n = 0 THEN {<<>>}
  ELSE LET shorter == SeqsUpTo(S, n - 1)
       IN  shorter \cup {Append(s, x) : s \in shorter, x \in S}

\* What a statistics category may hold: nothing, the still-computing
\* object, or a completed array.
StatValues(S, n) == {None, Some(Placeholder)} \cup {Some(Array(s)) : s \in SeqsUpTo(S, n)}

RawStats ==
  {Field("punchCard", p) @@ Field("contributors", c) @@ Field("stargazers", s)
     @@ Field("watchers", w) :
     p \in StatValues({7}, 1), c \in StatValues(RawContributors, MaxRawLen),
     s \in StatValues(RawUsers, 1), w \in StatValues(RawUsers, 1)}

RawRepos ==
  {[name |-> "r", full_name |-> "o/r", id |-> 3, stats |-> Array(<<s>>)] : s \in RawStats}

\* A property that holds a list, some other value, or is not there.
Nested(S, n) == {None, Some(Placeholder)} \cup {Some(Array(s)) : s \in SeqsUpTo(S, n)}

RawTeams ==
  {[name |-> n, id |-> 5] @@ Field("members", m) :
     n \in {"t1", "t2"}, m \in Nested({[login |-> "a"]}, 1)}

RawOrgs == {[login |-> "o"] @@ Field("teams", t) : t \in Nested(RawTeams, MaxRawLen)}

\* Raw data under a name that is no category.
RawBogus ==
  {<<>>, <<[login |-> "o"]>>, <<[login |-> "o", bogus |-> Placeholder]>>,
   <<[login |-> "o", bogus |-> Array(<<>>)]>>,
   <<[login |-> "o", bogus |-> Array(<<[login |-> "a"]>>)]>>}

\* Elements with all, some and none of the properties the normalizer reads.
PlainOrgs ==
  {[login |-> "o", id |-> 9, avatar_url |-> "avatar-o", description |-> "about o"],
   [login |-> "p"], Empty}

PlainOwners == {[owner |-> "w"], Empty}

PlainUsers == RawUsers \cup {Empty}

PlainTeams ==
  {[name |-> "t", id |-> 5, privacy |-> "closed", permission |-> "pull",
    description |-> "about t"],
   [name |-> "t", id |-> 5], [permission |-> "push"], Empty}

PlainRepos ==
  {[name |-> "r", full_name |-> "o/r", id |-> 3, html_url |-> "url-r",
    description |-> "about r", private |-> TRUE,
    repo_files |-> [file |-> [statusCode |-> 200, body |-> "text"]], fork |-> TRUE,
    created_at |-> "t0", updated_at |-> "t1", pushed_at |-> "t2", git_url |-> "git-r",
    ssh_url |-> "ssh-r", clone_url |-> "clone-r", stargazers_count |-> 4,
    watchers_count |-> 2, default_branch |-> "master"],
   [name |-> "r", full_name |-> "o/r", id |-> 3, private |-> FALSE],
   [stargazers_count |-> 1, fork |-> TRUE], Empty}

\* Calls on one category, with the options they are given: none, those of a
\* client constructed without URL options, or a prefix of the caller's.
PlainInputs ==
  {[categories |-> <<"orgs">>, raw |-> u, options |-> o] :
     u \in SeqsUpTo(PlainOrgs, MaxRawLen),
     o \in {Empty, optionsURL, [hostUrlPrefix |-> "https://ghe.example.com/"]}}
  \cup {[categories |-> <<"owners">>, raw |-> u, options |-> o] :
          u \in SeqsUpTo(PlainOwners, MaxRawLen),
          o \in {Empty, optionsURL, [hostUrlPrefix |-> "https://ghe.example.com/"]}}
  \cup {[categories |-> <<c>>, raw |-> u, options |-> optionsURL] :
          c \in {"members", "users"}, u \in SeqsUpTo(PlainUsers, MaxRawLen)}
  \cup {[categories |-> <<"teams">>, raw |-> u, options |-> optionsURL] :
          u \in SeqsUpTo(PlainTeams, MaxRawLen)}
  \cup {[categories |-> <<"repos">>, raw |-> u, options |-> optionsURL] :
          u \in SeqsUpTo(PlainRepos, MaxRawLen)}

\* The credentials of the sources, as the constructor verified them.
Credentials ==
  {[type |-> "oauth", token |-> "t1"], [type |-> "oauth", token |-> "t2"],
   [type |-> "basic", username |-> "u", password |-> "p"]}

\* Organizations as getOrgs returns them: with `_credential`, and with
\* `auth_user` when the call was authenticated; some with repositories.
OrgsWithCredential ==
  {[login |-> "o", id |-> 9] @@ ("_credential" :> c) @@ Field("auth_user", a)
     @@ Field("repos", r) :
     c \in Credentials, a \in {None, Some([login |-> "me", id |-> 7])},
     r \in {None, Some(Array(<<[name |-> "r", id |-> 3]>>))}}

\* Entries of this._organizations, and the owner groups of getOwnerOrgs.
OwnersWithCredential ==
  {[owner |-> "w", credential |-> c, regex |-> "^o"] : c \in Credentials}
  \cup {[owner |-> "w", orgs |-> Array(<<[login |-> "o", id |-> 9]>>)]}

\* What the operations hand to the normalizer, with this._optionsURL.
AttachedInputs ==
  {[categories |-> c, raw |-> u, options |-> optionsURL] :
     c \in {<<"orgs">>, <<"orgs", "repos">>},
     u \in SeqsUpTo(OrgsWithCredential, MaxRawLen)}
  \cup {[categories |-> c, raw |-> u, options |-> optionsURL] :
          c \in {<<"owners">>, <<"owners", "orgs">>},
          u \in SeqsUpTo(OwnersWithCredential, MaxRawLen)}

NormalizeInputs ==
  {[categories |-> <<"stats">>, raw |-> <<s>>] : s \in RawStats}
  \cup {[categories |-> <<"repos", "stats">>, raw |-> <<r>>] : r \in RawRepos}
  \cup {[categories |-> <<"contributors">>, raw |-> u] : u \in SeqsUpTo(RawUsers, MaxRawLen)}
  \cup {[categories |-> <<"stats", "contributors">>, raw |-> <<s>>] : s \in RawStats}
  \cup {[categories |-> c, raw |-> u] :
          c \in {<<"orgs", "teams">>, <<"orgs", "teams", "members">>},
          u \in SeqsUpTo(RawOrgs, 1)}
  \cup {[categories |-> c, raw |-> u] :
          c \in {<<>>, <<"bogus">>, <<"orgs", "bogus">>, <<"bogus", "orgs">>},
          u \in RawBogus}

\* The normalizer is about to be called on some raw data, the query methods
\* are not.
InitNormalize ==
  /\ scope = [ops |-> {}, calls |-> 0, entities |-> 0, credential |-> {}, categories |-> {},
              repoFiles |-> {}]
  /\ options = [normalize |-> "undefined", skipRateLimitCheck |-> FALSE,
                credential |-> FALSE, categories |-> <<>>, repoFiles |-> None]
  /\ calls = 0
  /\ call = IdleCall
  /\ net = {}
  /\ hist = NoHist
  /\ \E in \in NormalizeInputs \cup PlainInputs \cup AttachedInputs :
       norm = [categories |-> in.categories,
               options |-> IF Has(in, "options") THEN in.options
                           ELSE [hostUrlPrefix |-> "https://github.com/"],
               input |-> in.raw, raw |-> in.raw, outs |-> <<>>,
               left |-> MaxNormalizeCalls]
  /\ build = IdleBuild
  /\ github = IdleGitHub

\* A call of normalizeCategories on the raw data, as earlier calls left it.
Normalize ==
  /\ norm.left > 0
  /\ LET r == normalizeCategories(norm.categories, norm.raw, norm.options)
     IN  norm' = [norm EXCEPT !.raw = r.raw,
                              !.outs = Append(@, [thrown |-> r.thrown, value |-> r.value]),
                              !.left = @ - 1]
  /\ UNCHANGED <<scope, options, calls, call, net, hist, build, github>>

NextNormalize == Normalize

SpecNormalize == InitNormalize /\ [][NextNormalize]_vars

\* ------------------------------------------------------------------------
\* Credentials (s_CREATE_CREDENTIALS).  A JavaScript value is a record with
\* its type `t`; a string is the sequence of its characters.

Undefined == [t |-> "undefined"]

Null == [t |-> "null"]

Number == [t |-> "number"]

Str(s) == [t |-> "string", s |-> s]

\* The credential type tags.
Tag(name) == [t |-> "string", tag |-> name]

\* A credential object hash.
Credential(type, username, password, token) ==
  [t |-> "object", type |-> type, username |-> username, password |-> password,
   token |-> token]

\* typeof v
TypeOf(v) == IF v.t = "null" THEN "object" ELSE v.t

Min(a, b) == IF a <= b THEN a ELSE b

\* s.indexOf(ch): the 0-based place of the first occurrence, or -1.
IndexOf(s, ch) ==
  IF \E i \in 1..Len(s) : s[i] = ch
  THEN (CHOOSE i \in 1..Len(s) : s[i] = ch /\ \A j \in 1..(i - 1) : s[j] # ch) - 1
  ELSE -1

RECURSIVE Pieces(_, _)
\* The substrings of s between the occurrences of ch.
Pieces(s, ch) ==
  LET i == IndexOf(s, ch)
  IN  IF i = -1 THEN <<s>>
      ELSE <<SubSeq(s, 1, i)>> \o Pieces(SubSeq(s, i + 2, Len(s)), ch)

\* s.split(ch, limit): the first `limit` of those substrings.
Split(s, ch, limit) ==
  LET all == Pieces(s, ch) IN SubSeq(all, 1, Min(limit, Len(all)))

\* `typeof x === 'undefined' || x === null || x === ''`
Missing(x) == x = Undefined \/ x = Null \/ x = Str(<<>>)

Thrown == [thrown |-> TRUE, value |-> <<>>]

Returned(v) == [thrown |-> FALSE, value |-> v]

\* The validation of a credential object at the end of s_CREATE_CREDENTIALS.
\* Reading `credential.type` of null throws.
Validated(credential) ==
  IF credential = Null THEN Thrown
  ELSE IF credential.type = Tag("basic")
  THEN IF credential.username = Undefined \/ credential.password = Null
          \/ credential.username = Str(<<>>)
       THEN Thrown
       ELSE IF Missing(credential.password) THEN Thrown ELSE Returned(credential)
  ELSE IF credential.type = Tag("oauth")
  THEN IF Missing(credential.token) THEN Thrown ELSE Returned(credential)
  ELSE Thrown

s_CREATE_CREDENTIALS(tokenOrPass) ==
  IF TypeOf(tokenOrPass) = "string"
  THEN IF tokenOrPass = Str(<<>>) THEN Thrown
       ELSE LET splitIndex == IndexOf(tokenOrPass.s, ":")
            IN  IF splitIndex >= 0
                THEN LET partials == Split(tokenOrPass.s, ":", 2)
                     IN  Validated(Credential(Tag("basic"), Str(partials[1]),
                                              Str(partials[2]), Undefined))
                ELSE Validated(Credential(Tag("oauth"), Undefined, Undefined, tokenOrPass))
  ELSE IF TypeOf(tokenOrPass) = "object" THEN Validated(tokenOrPass)
  ELSE Thrown

\* The characters of credential strings.
Chars == {"a", "b", ":"}

CredentialStrings == {Str(s) : s \in SeqsUpTo(Chars, MaxCredentialLen)}

\* A property of a credential object: missing, null, empty or set.
PropertyValues == {Undefined, Null, Str(<<>>), Str(<<"a">>)}

CredentialObjects ==
  {Credential(type, username, password, token) :
     type \in {Undefined, Tag("basic"), Tag("oauth"), Tag("token")},
     username \in PropertyValues, password \in PropertyValues, token \in PropertyValues}

CredentialInputs == CredentialStrings \cup CredentialObjects \cup {Undefined, Null, Number}

\* s_CREATE_CREDENTIALS is about to be called on some input.
InitCredentials ==
  /\ scope = [ops |-> {}, calls |-> 0, entities |-> 0, credential |-> {}, categories |-> {},
              repoFiles |-> {}]
  /\ options = [normalize |-> "undefined", skipRateLimitCheck |-> FALSE,
                credential |-> FALSE, categories |-> <<>>, repoFiles |-> None]
  /\ calls = 0
  /\ call = IdleCall
  /\ net = {}
  /\ hist = NoHist
  /\ norm = IdleNorm
  /\ \E in \in CredentialInputs :
       build = [IdleBuild EXCEPT !.fn = "s_CREATE_CREDENTIALS", !.input = in]
  /\ github = IdleGitHub

CreateCredentials ==
  /\ build.fn = "s_CREATE_CREDENTIALS"
  /\ ~build.done
  /\ LET r == s_CREATE_CREDENTIALS(build.input)
     IN  build' = [build EXCEPT !.done = TRUE, !.thrown = r.thrown, !.value = r.value]
  /\ UNCHANGED <<scope, options, calls, call, net, hist, norm, github>>

NextCredentials == CreateCredentials

SpecCredentials == InitCredentials /\ [][NextCredentials]_vars

\* ------------------------------------------------------------------------
\* The constructor.

Arr(items) == [t |-> "array", items |-> items]

\* A URL prefix string.
Url(u) == [t |-> "string", url |-> u]

\* An entry of options.organizations.
Organization(credential, owner, regex) ==
  [t |-> "object", credential |-> credential, owner |-> owner, regex |-> regex]

\* The options of the constructor.
Options(orgs, hostUrlPrefix) ==
  [t |-> "object", organizations |-> orgs, hostUrlPrefix |-> hostUrlPrefix]

RECURSIVE Unclosed(_, _)
\* The number of groups left open at the end of pattern s, or -1 once a ')'
\* closes nothing.
Unclosed(s, open) ==
  IF s = <<>> THEN open
  ELSE IF Head(s) = "(" THEN Unclosed(Tail(s), open + 1)
  ELSE IF Head(s) = ")" THEN (IF open = 0 THEN -1 ELSE Unclosed(Tail(s), open - 1))
  ELSE Unclosed(Tail(s), open)

\* new RegExp(s) does not throw: the groups of s are matched.
ValidRegExp(s) == Unclosed(s, 0) = 0

\* The body of the constructor's loop for one entry: the verified source.
VerifiedOrg(organization) ==
  IF organization = Null \/ TypeOf(organization) # "object" THEN Thrown
  ELSE IF TypeOf(organization.credential) # "string" THEN Thrown
  ELSE LET credential == s_CREATE_CREDENTIALS(organization.credential)
       IN  IF credential.thrown THEN Thrown
           ELSE IF TypeOf(organization.owner) # "string" THEN Thrown
           ELSE IF TypeOf(organization.regex) # "string" THEN Thrown
           ELSE IF ~ValidRegExp(organization.regex.s) THEN Thrown
           ELSE Returned([credential |-> credential.value, owner |-> organization.owner,
                          regex |-> organization.regex])

\* `x || d` for a URL prefix option.
UrlOr(x, d) == IF x = Undefined \/ x = Str(<<>>) THEN d ELSE x.url

\* constructor(options = {}): the private data of the instance, unless it
\* throws.
Constructor(given) ==
  LET o == IF given = Undefined THEN Options(Undefined, Undefined) ELSE given
  IN  IF o = Null \/ TypeOf(o) # "object" THEN Thrown
      ELSE IF o.organizations.t # "array" THEN Thrown
      ELSE LET verified == [k \in 1..Len(o.organizations.items) |->
                              VerifiedOrg(o.organizations.items[k])]
           IN  IF \E k \in 1..Len(verified) : verified[k].thrown THEN Thrown
               ELSE Returned([organizations |-> [k \in 1..Len(verified) |-> verified[k].value],
                              optionsURL |->
                                [hostUrlPrefix |->
                                   UrlOr(o.hostUrlPrefix, optionsURL.hostUrlPrefix),
                                 rawUrlPrefix |-> optionsURL.rawUrlPrefix]])

\* Entries of options.organizations, good and bad.
OrganizationEntries ==
  {Number, Null}
  \cup {Organization(credential, owner, regex) :
          credential \in {Number, Str(<<>>), Str(<<"a">>), Str(<<"a", ":", "b">>),
                          Str(<<"a", ":">>)},
          owner \in {Undefined, Str(<<"a">>), Str(<<"b">>)},
          regex \in {Number, Str(<<>>), Str(<<"a">>), Str(<<"(", "a", ")">>),
                     Str(<<"(">>), Str(<<")">>)}}

ConstructorInputs ==
  {Undefined, Null, Number, Options(Undefined, Undefined), Options(Str(<<"a">>), Undefined)}
  \cup {Options(Arr(items), prefix) :
          items \in SeqsUpTo(OrganizationEntries, MaxOrganizations),
          prefix \in {Undefined, Str(<<>>), Url("https://example.com/")}}

\* The constructor is about to be called.
InitConstructor ==
  /\ scope = [ops |-> {}, calls |-> 0, entities |-> 0, credential |-> {}, categories |-> {},
              repoFiles |-> {}]
  /\ options = [normalize |-> "undefined", skipRateLimitCheck |-> FALSE,
                credential |-> FALSE, categories |-> <<>>, repoFiles |-> None]
  /\ calls = 0
  /\ call = IdleCall
  /\ net = {}
  /\ hist = NoHist
  /\ norm = IdleNorm
  /\ \E in \in ConstructorInputs :
       build = [IdleBuild EXCEPT !.fn = "constructor", !.input = in]
  /\ github = IdleGitHub

\* new GitHubInspectOrgs(options)
Construct ==
  /\ build.fn = "constructor"
  /\ ~build.done
  /\ LET r == Constructor(build.input)
     IN  build' = [build EXCEPT !.done = TRUE, !.thrown = r.thrown, !.value = r.value]
  /\ UNCHANGED <<scope, options, calls, call, net, hist, norm, github>>

NextConstructor == Construct

SpecConstructor == InitConstructor /\ [][NextConstructor]_vars

\* ------------------------------------------------------------------------
\* The shared API client.  Every operation of an inspector sends its requests
\* through the one this._githubAPI; a callback or `.then` handler runs to its
\* end before the next one starts, and the handlers of operations that run at
\* the same time interleave.

\* The credential a caller passes to an authenticated query.
CallerCredential == 3

\* The requests an operation sends, stage by stage; the requests of a stage
\* are sent when all of the stage before have been answered.
Chain(fn, auth) ==
  CASE fn = "getOrgs" /\ ~auth -> <<"misc.rateLimit", "orgs.getFromUser">>
    [] fn = "getOrgs" /\ auth ->
         <<"misc.rateLimit", "user.get", "orgs.getFromUser", "orgs.getMember">>
    [] fn = "getOrgRepoStats" ->
         <<"misc.rateLimit", "orgs.getFromUser", "repos.getFromOrg", "repos.stats">>

ClientOperations ==
  {[fn |-> "getOrgs", auth |-> FALSE], [fn |-> "getOrgs", auth |-> TRUE],
   [fn |-> "getOrgRepoStats", auth |-> FALSE]}

\* What the requests of a stage are sent for, in the order of the loop, each
\* with the credential the code passes to s_AUTHENTICATE: the sources with
\* organization.credential, the caller with options.credential, or the
\* organizations found with their org._credential.
Targets(kind, op) ==
  LET of(s) == [source |-> s, credential |-> organizations[s].credential]
  IN  CASE kind \in {"misc.rateLimit", "orgs.getFromUser"} -> [s \in Sources |-> of(s)]
        [] kind = "user.get" -> <<[source |-> 0, credential |-> CallerCredential]>>
        [] OTHER ->
             LET found == SelectSeq([s \in Sources |-> s], LAMBDA s : s \in op.orgs)
             IN  [k \in 1..Len(found) |-> of(found[k])]

\* A faulty variant of s_AUTHENTICATE: a credential that is set is kept.
s_AUTHENTICATE_KeepingFirst(githubAPI, credential) ==
  IF githubAPI.auth = 0 THEN [githubAPI EXCEPT !.auth = credential] ELSE githubAPI

\* githubAPI.authenticate(s_CREATE_CREDENTIALS(credential)); return githubAPI
s_AUTHENTICATE(githubAPI, credential) == [githubAPI EXCEPT !.auth = credential]

RECURSIVE SendAll(_, _, _, _)
\* The loop of a handler of operation i: for each target
\* `const github = s_AUTHENTICATE(githubAPI, credential); github.x.y(...)`.
\* The request goes out under the credential the client holds at that moment.
SendAll(githubAPI, i, kind, targets) ==
  IF targets = <<>> THEN githubAPI
  ELSE LET gh == s_AUTHENTICATE(githubAPI, Head(targets).credential)
           req == [op |-> i, kind |-> kind, source |-> Head(targets).source,
                   auth |-> gh.auth]
       IN  SendAll([gh EXCEPT !.sent = @ \cup {req}], i, kind, Tail(targets))

\* Operation i enters its next stage, or is done when no stage or no target
\* is left.
Advance(githubAPI, i) ==
  LET op == githubAPI.running[i]
      chain == Chain(op.fn, op.auth)
      next == op.stage + 1
      targets == IF next <= Len(chain) THEN Targets(chain[next], op) ELSE <<>>
  IN  IF targets = <<>>
      THEN [githubAPI EXCEPT !.running[i].stage = Len(chain) + 1]
      ELSE SendAll([githubAPI EXCEPT !.running[i].stage = next], i, chain[next], targets)

\* A top-level call while earlier operations may still run.
ClientBegin ==
  /\ Len(github.running) < MaxOperations
  /\ \E o \in ClientOperations :
       LET i == Len(github.running) + 1
           op == [fn |-> o.fn, auth |-> o.auth, stage |-> 0, orgs |-> {}]
       IN  github' = Advance([github EXCEPT !.running = Append(@, op)], i)
  /\ UNCHANGED <<scope, options, calls, call, net, hist, norm, build>>

\* The callback of a request in flight; with the last answer of a stage the
\* `.then` of its Promise.all runs.  A listing finds an organization of the
\* source or none.
ClientCallback ==
  /\ \E req \in github.sent, found \in BOOLEAN :
       /\ found => req.kind = "orgs.getFromUser"
       /\ LET gh == [github EXCEPT !.sent = @ \ {req},
                                   !.running[req.op].orgs =
                                     IF found THEN @ \cup {req.source} ELSE @]
          IN  github' = IF \E r \in gh.sent : r.op = req.op THEN gh
                        ELSE Advance(gh, req.op)
  /\ UNCHANGED <<scope, options, calls, call, net, hist, norm, build>>

\* No query of the sequential model; operations start on the shared client.
InitClient ==
  InitScope([ops |-> {}, calls |-> 0, entities |-> 0, credential |-> {}, categories |-> {},
             repoFiles |-> {}])

NextClient ==
  \/ ClientBegin
  \/ ClientCallback

SpecClient == InitClient /\ [][NextClient]_vars

\* ------------------------------------------------------------------------
\* Properties.

Settled == call.promise \in {"resolved", "rejected"}

Owners(S) == {organizations[s].owner : s \in S}

\* C1: whenever the rate-limit response of some source reported a core
\* `remaining` of zero, the call never resolves, and once all its requests
\* are answered it is rejected with the rate-limit error naming the owner of
\* a source whose quota is used up.
C1_ZeroQuotaRejects ==
  hist.zeroSeen # {} =>
    /\ call.promise # "resolved"
    /\ net = {} => /\ call.promise = "rejected"
                   /\ hist.failed = {} =>
                        /\ call.reason.type = "rate limit reached"
                        /\ call.reason.owner \in Owners(hist.exhausted)

\* C2: in a call in which a rate-limit response reported `remaining: 0`, no
\* request other than the rate-limit requests is issued.
C2_NoFetchAfterZeroQuota == hist.zeroSeen # {} => hist.nData = 0

\* C3: every call that resolves (the caller never sets `normalize`), also a
\* second or later call given the same options object, resolves with
\* {normalized, raw}.
C3_AlwaysNormalizedAndRaw == call.promise = "resolved" => call.shape = "wrapped"

FatalKinds ==
  {"orgs.getFromUser", "orgs.getMembers", "repos.getFromOrg", "orgs.getTeamRepos",
   "repos.stats"}

\* C4: once a request on a fatal path has failed (organization listing,
\* organization members, repository listing, team repositories, a statistics
\* category), the call does not resolve with data.
C4_FatalFailureNeverResolves ==
  hist.failed \cap FatalKinds # {} => call.promise # "resolved"

C4_Witness ==
  /\ hist.failed \cap FatalKinds # {}
  /\ options.credential
  /\ call.op = "getOrgRepoStats"
  /\ call.promise = "rejected"
  /\ net = {}

\* C5: when every request the call issued has had its callback, the promise
\* of the call is settled (resolved or rejected), not left pending.
C5_SettlesOnceAnswered == (calls > 0 /\ net = {}) => Settled

SoftKinds ==
  {"repos.getCollaborators", "repos.getContributors", "orgs.getTeams",
   "orgs.getTeamMembers", "orgs.getMember", "orgs.getTeamMember"}

\* C6: a call in which only collaborator, contributor, team, team-member
\* listings or membership probes failed is not rejected; once all its
\* requests are answered it is resolved.
C6_SoftFailureNeverRejects ==
  (hist.failed # {} /\ hist.failed \subseteq SoftKinds /\ hist.exhausted \subseteq hist.zeroSeen) =>
    /\ call.promise # "rejected"
    /\ net = {} => call.promise = "resolved"


Resolved(op, authenticated) ==
  /\ call.op = op
  /\ options.credential = authenticated
  /\ call.promise = "resolved"

\* The <<login, credential>> pairs of a list of organizations.
Discovered(orgs) == {<<orgs[i].login, orgs[i].credential>> : i \in 1..Len(orgs)}

\* The listed organizations whose login matches the regex of their source.
ListedMatching == {p \in hist.listed : p[1] \in organizations[p[2]].regex}

\* C7: an unauthenticated getOrgs resolves with exactly the organizations
\* some source listed and whose login matches that source's regex, once per
\* discovering source, each carrying that source's credential, sorted by
\* login.
C7_UnauthOrgsAreTheMatchingListed ==
  Resolved("getOrgs", FALSE) =>
    /\ Discovered(call.value) =
         {<<p[1], organizations[p[2]].credential>> : p \in ListedMatching}
    /\ Len(call.value) = Cardinality(ListedMatching)
    /\ IsSorted(Logins(call.value))

C7_Witness ==
  /\ Resolved("getOrgs", FALSE)
  /\ Len(call.value) = 2
  /\ call.value[1].credential # call.value[2].credential
  /\ ListedMatching # hist.listed

\* The entries of `s` at the positions in I, in the order of `s`.
Pick(s, I) ==
  LET at == SelectSeq([i \in 1..Len(s) |-> i], LAMBDA i : i \in I)
  IN  [k \in 1..Len(at) |-> s[at[k]]]

\* C8 (as stated): an authenticated getOrgs resolves with the organizations
\* of the unauthenticated listing whose membership probe succeeded, and the
\* resolved list is the same whatever the arrival order of the probe
\* responses, i.e. it is the listing restricted to the successful probes.
C8_AuthOrgsIndependentOfArrival ==
  Resolved("getOrgs", TRUE) => call.value = Pick(call.orgs, hist.memberOK)

\* C8 (amended): an authenticated getOrgs resolves with exactly the
\* organizations of the unauthenticated listing whose membership probe
\* succeeded, sorted by login; the entries and the sequence of their logins
\* are the same for every arrival order of the probe responses (entries of
\* equal login, discovered through different sources, may swap).
C8_AuthOrgsAreTheProbed ==
  Resolved("getOrgs", TRUE) =>
    LET picked == Pick(call.orgs, hist.memberOK)
    IN  /\ Range(call.value) = Range(picked)
        /\ Len(call.value) = Len(picked)
        /\ Logins(call.value) = Logins(picked)
        /\ IsSorted(Logins(call.value))

C8_Witness ==
  /\ Resolved("getOrgs", TRUE)
  /\ "orgs.getMember" \in hist.failed
  /\ Len(call.orgs) = 3
  /\ Len(call.value) = 2
  /\ call.value # Pick(call.orgs, hist.memberOK)

\* C9: in an authenticated call whose identity request failed, the call is
\* rejected and no further request is issued.
C9_IdentityFailureStops ==
  /\ [](hist.userFailed => (call.promise = "rejected" /\ net = {}))
  /\ [][hist.userFailed => hist'.nData = hist.nData]_vars

C9_Witness ==
  /\ hist.userFailed
  /\ options.credential
  /\ call.promise = "rejected"
  /\ call.reason.type = "user authentication failed"
  /\ hist.nData = 1

\* The names of the teams of organization i whose team-membership probe
\* succeeded.
ProbedTeams(i) == {p[2] : p \in {q \in hist.teamOK : q[1] = i}}

\* C10: an authenticated getOrgTeams resolves with, for each organization, a
\* `teams` list holding exactly the listed teams whose team-membership probe
\* succeeded, sorted by name; in an authenticated call team-repository and
\* team-member requests are issued only for such teams.
C10_AuthTeamsAreTheProbed ==
  /\ hist.teamOK \subseteq hist.teamListed
  /\ Resolved("getOrgTeams", TRUE) =>
       \A i \in 1..Len(call.value) :
         LET names == Names(TeamsOf(call.value[i]))
         IN  /\ call.value[i].teams # None
             /\ Range(names) = ProbedTeams(i)
             /\ Len(names) = Cardinality(ProbedTeams(i))
             /\ IsSorted(names)
  /\ options.credential =>
       \A req \in net :
         req.kind \in {"orgs.getTeamRepos", "orgs.getTeamMembers"} =>
           /\ req.team \in 1..Len(TeamsOf(call.orgs[req.org]))
           /\ <<req.org, TeamsOf(call.orgs[req.org])[req.team].name>> \in hist.teamOK

C10_Witness ==
  /\ Resolved("getOrgTeams", TRUE)
  /\ "orgs.getTeamMember" \in hist.failed
  /\ \E i \in 1..Len(call.value) :
       /\ Len(TeamsOf(call.value[i])) = 1
       /\ \E p \in hist.teamListed \ hist.teamOK : p[1] = i


\* The repository names the kept teams of organization i returned.
TeamRepoNames(i) == {p[3] : p \in {q \in hist.teamRepos : q[1] = i}}

\* C11: an authenticated getOrgRepos resolves with, for each organization, a
\* `repos` list sorted by name that holds exactly one entry for every
\* repository name some kept team of that organization returned, whatever the
\* arrival order of the team-repository responses; the same name under two
\* organizations is kept in both.
C11_AuthReposAreTheTeamUnion ==
  Resolved("getOrgRepos", TRUE) =>
    \A i \in 1..Len(call.value) :
      LET names == Names(ReposOf(call.value[i]))
      IN  /\ call.value[i].repos # None
          /\ Range(names) = TeamRepoNames(i)
          /\ Len(names) = Cardinality(TeamRepoNames(i))
          /\ IsSorted(names)

C11_Witness ==
  /\ Resolved("getOrgRepos", TRUE)
  /\ \E i \in 1..Len(call.value) :
       /\ Len(ReposOf(call.value[i])) = 1
       /\ \E p, q \in hist.teamRepos : p[1] = i /\ q[1] = i /\ p[2] # q[2] /\ p[3] = q[3]


\* Site a is met no later than site b when walking organizations, then
\* repositories.
SiteLeq(a, b) == a[1] < b[1] \/ (a[1] = b[1] /\ a[2] <= b[2])

\* C12: getCollaborators, getContributors and getMembers resolve with a flat
\* array holding exactly one entry for every login that occurs in the nested
\* listing and no other entry, in ascending login order; of several entries
\* with one login the first met (organizations, then repositories) is kept.
C12_FlatOnePerLoginSortedFirstMet ==
  (call.op \in Flatteners /\ call.promise = "resolved") =>
    LET v == call.value
    IN  /\ Range(Logins(v)) = {u.login : u \in hist.users}
        /\ \A k \in 1..(Len(v) - 1) : v[k].login < v[k + 1].login
        /\ \A k \in 1..Len(v) :
             /\ v[k] \in hist.users
             /\ \A u \in hist.users : u.login = v[k].login => SiteLeq(v[k].site, u.site)

C12_Witness ==
  /\ call.op \in Flatteners
  /\ call.promise = "resolved"
  /\ Len(call.value) = 2
  /\ \E u, w \in hist.users : u.login = w.login /\ u.site # w.site


SortedByLogin(opt) == IsSorted(Logins(OptFlat(opt)))

\* Every array nested in a list of organizations is in ascending order of
\* its display key.
NestedSorted(orgs) ==
  /\ IsSorted(Logins(orgs))
  /\ \A i \in 1..Len(orgs) :
       /\ SortedByLogin(orgs[i].members)
       /\ IsSorted(Names(TeamsOf(orgs[i])))
       /\ \A t \in 1..Len(TeamsOf(orgs[i])) : SortedByLogin(TeamsOf(orgs[i])[t].members)
       /\ IsSorted(Names(ReposOf(orgs[i])))
       /\ \A r \in 1..Len(ReposOf(orgs[i])) :
            /\ SortedByLogin(ReposOf(orgs[i])[r].collaborators)
            /\ SortedByLogin(ReposOf(orgs[i])[r].contributors)

\* C13: in the result of every operation every array of organizations,
\* repositories, teams, team members, organization members, collaborators
\* and contributors is in nondecreasing order of its display key, whatever
\* the order of the API listing or of the callbacks.
C13_EveryArraySorted ==
  call.promise = "resolved" =>
    IF call.op \in Flatteners THEN IsSorted(Logins(call.value))
    ELSE NestedSorted(call.value)


\* C14: after getOrgRepoStats resolves, the pending flag of a repository is
\* true exactly when some category response for that repository carried the
\* still-computing marker, whatever the arrival order; a call in which
\* nothing failed is not rejected because a response was pending.
C14_PendingFlagIffSomeMarker ==
  call.op = "getOrgRepoStats" =>
    /\ call.promise = "resolved" =>
         \A i \in 1..Len(call.value) :
           \A r \in 1..Len(ReposOf(call.value[i])) :
             LET stats == ReposOf(call.value[i])[r].stats
             IN  /\ stats # None
                 /\ stats[1].resultsPending <=> <<i, r>> \in hist.pending
    /\ (hist.pending # {} /\ hist.failed = {}) => call.promise # "rejected"

C14_Witness ==
  /\ call.op = "getOrgRepoStats"
  /\ call.promise = "resolved"
  /\ \E i \in 1..Len(call.value) :
       \E r \in 1..Len(ReposOf(call.value[i])) :
         LET stats == ReposOf(call.value[i])[r].stats[1]
         IN  /\ stats.resultsPending
             /\ \E k \in stats.keys : k[2] = "data"


\* The statistics objects of the raw data and, place for place, of a
\* normalized tree.
StatsOf(categories, data) ==
  IF categories = <<"stats">> THEN data
  ELSE IF categories = <<"repos", "stats">>
  THEN Flat([k \in 1..Len(data) |-> data[k].stats.items])
  ELSE <<>>

Normalized(out) == out.value[norm.categories[1]]

UserCategories == {"contributors", "stargazers", "watchers"}

\* C15: a statistics category whose raw value is the still-computing object
\* appears unchanged in the normalized statistics entry, for contributors,
\* stargazers and watchers alike.
C15_PlaceholderSurfacedAsIs ==
  (Len(norm.outs) = 1 /\ ~norm.outs[1].thrown) =>
    LET raw == StatsOf(norm.categories, norm.input)
        out == StatsOf(norm.categories, Normalized(norm.outs[1]))
    IN  \A k \in 1..Len(raw) :
          \A f \in UserCategories :
            (Has(raw[k], f) /\ ~raw[k][f].array) => (Has(out[k], f) /\ out[k][f] = raw[k][f])


\* C19: normalizing the same raw input twice under a fixed clock yields the
\* same output both times.
C19_NormalizeTwiceSameOutput ==
  Len(norm.outs) = 2 => norm.outs[2] = norm.outs[1]

\* C20: normalization leaves its input as it was, the author of each
\* statistics contributor included.
C20_NormalizeLeavesInputAlone ==
  Len(norm.outs) >= 1 => norm.raw = norm.input


\* C16: when the requested category list holds a name that is no known
\* category, getOrgRepoStats never resolves.
C16_UnknownCategoryNeverResolves ==
  (call.op = "getOrgRepoStats" /\ Range(options.categories) \ (StatCategories \cup {"all"}) # {})
    => call.promise # "resolved"


\* The (organization, repository) places of the organizations of the call.
RepoPlaces ==
  {p \in (1..Len(call.orgs)) \X (1..MaxListLen) : p[2] <= Len(ReposOf(call.orgs[p[1]]))}

StatsAt(orgs, p) == ReposOf(orgs[p[1]])[p[2]].stats[1]

\* With the wildcard, every (repository, category) pair is requested once:
\* it is outstanding or answered, never both, and nothing else is asked.
OneRequestPerRepoAndCategory ==
  (call.stage = "repos.stats" /\ ~call.aborted) =>
    /\ \A q \in net : q.kind = "repos.stats" /\ <<q.org, q.repo>> \in RepoPlaces
    /\ \A p \in RepoPlaces :
         LET asked == {q.cat : q \in {x \in net : <<x.org, x.repo>> = p}}
             answered == {k[1] : k \in StatsAt(call.orgs, p).keys}
         IN  asked \cup answered = StatCategories /\ asked \cap answered = {}

AllNonEmpty(stats) == \A k \in stats.keys : k[2] # "empty"

WildcardCall == call.op = "getOrgRepoStats" /\ options.categories = <<"all">>

\* C17 as stated: with categories ['all'], one request per repository and
\* known category, and the one object of each repository's `stats` has the
\* seven categories as its keys when every response is non-empty.
C17_WildcardStatsHaveTheSevenKeys ==
  WildcardCall =>
    /\ OneRequestPerRepoAndCategory
    /\ call.promise = "resolved" =>
         \A p \in RepoPlaces :
           AllNonEmpty(StatsAt(call.value, p)) =>
             /\ NormalizedStatKeys(StatsAt(call.value, p)) = StatCategories
             /\ RawStatKeys(StatsAt(call.value, p)) = StatCategories

\* C17, amended: the raw object has `_resultsPending` as an eighth key when
\* some response was the still-computing marker.
C17_WildcardStatsKeysAndPendingFlag ==
  WildcardCall =>
    /\ OneRequestPerRepoAndCategory
    /\ call.promise = "resolved" =>
         \A p \in RepoPlaces :
           AllNonEmpty(StatsAt(call.value, p)) =>
             /\ NormalizedStatKeys(StatsAt(call.value, p)) = StatCategories
             /\ RawStatKeys(StatsAt(call.value, p)) =
                  StatCategories \cup (IF <<p[1], p[2]>> \in hist.pending
                                       THEN {"_resultsPending"} ELSE {})

C17_Witness ==
  /\ WildcardCall
  /\ call.promise = "resolved"
  /\ hist.nData = Cardinality(Sources) + Len(call.value) + 7
  /\ \E p \in RepoPlaces :
       /\ AllNonEmpty(StatsAt(call.value, p))
       /\ hist.pending = {p}
       /\ \E k \in StatsAt(call.value, p).keys : k[2] = "data"


\* The (organization, repository) places of a resolved aggregate.
PlacesOf(orgs) ==
  {p \in (1..Len(orgs)) \X (1..MaxFileEntities) : p[2] <= Len(ReposOf(orgs[p[1]]))}

RequestedPaths == IF options.repoFiles = None THEN {} ELSE Range(options.repoFiles[1])

\* C18: with `repoFiles`, one raw-file fetch per repository and path, aimed
\* at the raw prefix followed by full_name/default_branch/path; once the
\* call resolves each repo_files[path] is the status code and body of the
\* response to its own fetch, for every status code and arrival order.
C18_OneFetchPerRepoAndPathOwnResponse ==
  (call.op = "getOrgRepos" /\ RequestedPaths # {}) =>
    /\ \A q \in net :
         (q.kind = "request" /\ ~call.aborted) =>
           LET repo == ReposOf(call.orgs[q.org])[q.repo]
           IN  /\ q.path \in RequestedPaths
               /\ q.url = <<optionsURL.rawUrlPrefix, repo.full_name, "/",
                            repo.default_branch, "/", q.path>>
               /\ ~\E h \in hist.files : <<h[1], h[2], h[3]>> = <<q.org, q.repo, q.path>>
    /\ \A h1, h2 \in hist.files :
         <<h1[1], h1[2], h1[3]>> = <<h2[1], h2[2], h2[3]>> => h1 = h2
    /\ call.promise = "resolved" =>
         \A p \in PlacesOf(call.value) :
           LET repo == ReposOf(call.value[p[1]])[p[2]]
           IN  /\ repo.repo_files # None
               /\ DOMAIN repo.repo_files[1] = RequestedPaths
               /\ \A path \in RequestedPaths :
                    <<p[1], p[2], path, repo.repo_files[1][path]>> \in hist.files

C18_Witness ==
  /\ call.op = "getOrgRepos"
  /\ call.promise = "resolved"
  /\ Cardinality(RequestedPaths) = 2
  /\ \E p \in PlacesOf(call.value) :
       LET files == ReposOf(call.value[p[1]])[p[2]].repo_files[1]
       IN  /\ files["package.json"].statusCode = 404
           /\ files[".travis.yml"].statusCode = 200
           /\ files["package.json"].body # files[".travis.yml"].body


\* The name a normalized entry shows for a raw element of a category.
NameOf(category, element) ==
  IF category \in {"teams", "repos"} THEN StrOr(element, "name", "")
  ELSE StrOr(element, "login", "")

RECURSIVE NestedAsRaw(_, _, _, _)
\* The normalized entries `out` of depth d stand for the raw elements place
\* for place, and each carries a list under the next category's name exactly
\* when its raw element holds a list there; else it has no such property.
NestedAsRaw(categories, d, raw, out) ==
  /\ Len(out) = Len(raw)
  /\ \A k \in 1..Len(raw) :
       /\ categories[d] # "stats" => out[k].name = NameOf(categories[d], raw[k])
       /\ d < Len(categories) =>
            LET next == categories[d + 1]
            IN  IF IsArray(raw[k], next)
                THEN /\ IsArray(out[k], next)
                     /\ NestedAsRaw(categories, d + 1, raw[k][next].items, out[k][next].items)
                ELSE ~Has(out[k], next)

\* C21: a normalized entry carries a nested array under the next category's
\* name iff its raw element has an array-valued property of that name, of
\* the same length and order; otherwise it has no property of that name.
C21_NestedIffRawArray ==
  (Len(norm.outs) >= 1 /\ ~norm.outs[1].thrown) =>
    NestedAsRaw(norm.categories, 1, norm.input, Normalized(norm.outs[1]))

\* C22: normalizing fails for every category path that holds a name without
\* a normalize function, whatever the raw data.
C22_UnknownCategoryAlwaysFails ==
  (Len(norm.outs) >= 1 /\ Range(norm.categories) \ KnownCategories # {}) =>
    norm.outs[1].thrown


\* C23: a non-empty string with ':' yields a basic credential: the username
\* is what precedes the first ':', the password all that follows it; a
\* string without ':' yields an oauth credential whose token is the string.
C23_StringCredentialSplitAtFirstColon ==
  (build.fn = "s_CREATE_CREDENTIALS" /\ build.done /\ build.input.t = "string"
   /\ build.input # Str(<<>>)) =>
    LET s == build.input.s
        i == IndexOf(s, ":")
    IN  /\ ~build.thrown
        /\ IF i >= 0
           THEN build.value = Credential(Tag("basic"), Str(SubSeq(s, 1, i)),
                                         Str(SubSeq(s, i + 2, Len(s))), Undefined)
           ELSE build.value = Credential(Tag("oauth"), Undefined, Undefined, Str(s))

\* The inputs that are no credential: the empty string, a value that is
\* neither a string nor a credential object, a basic credential without a
\* username or password, an oauth credential without a token, an object
\* with another type tag.
NoCredential(in) ==
  \/ in = Str(<<>>)
  \/ in.t \notin {"string", "object"}
  \/ /\ in.t = "object"
     /\ \/ in.type = Tag("basic") /\ (Missing(in.username) \/ Missing(in.password))
        \/ in.type = Tag("oauth") /\ Missing(in.token)
        \/ in.type \notin {Tag("basic"), Tag("oauth")}

\* C24: credential resolution fails for every input that is no credential.
C24_InvalidCredentialFails ==
  (build.fn = "s_CREATE_CREDENTIALS" /\ build.done /\ NoCredential(build.input)) =>
    build.thrown


\* An entry of options.organizations the constructor must refuse.
BadEntry(x) ==
  \/ x.t # "object"
  \/ /\ x.t = "object"
     /\ \/ x.credential.t # "string"
        \/ x.credential.t = "string" /\ s_CREATE_CREDENTIALS(x.credential).thrown
        \/ x.owner.t # "string"
        \/ x.regex.t # "string"
        \/ x.regex.t = "string" /\ ~ValidRegExp(x.regex.s)

\* Options the constructor must refuse: `organizations` missing, no array,
\* an empty array, or holding a bad entry.
BadOptions(o) ==
  \/ o.t # "object"
  \/ /\ o.t = "object"
     /\ \/ o.organizations.t # "array"
        \/ /\ o.organizations.t = "array"
           /\ \/ o.organizations.items = <<>>
              \/ \E k \in 1..Len(o.organizations.items) : BadEntry(o.organizations.items[k])

\* C25: the constructor throws, with no request sent, for refused options;
\* otherwise it stores one verified source per entry, in order.
C25_ConstructorValidatesOrganizations ==
  (build.fn = "constructor" /\ build.done) =>
    /\ net = {} /\ hist.nData = 0
    /\ IF BadOptions(build.input) THEN build.thrown
       ELSE /\ ~build.thrown
            /\ LET entries == build.input.organizations.items
                   stored == build.value.organizations
               IN  /\ Len(stored) = Len(entries)
                   /\ \A k \in 1..Len(entries) :
                        /\ stored[k].owner = entries[k].owner
                        /\ stored[k].regex = entries[k].regex
                        /\ stored[k].credential =
                             s_CREATE_CREDENTIALS(entries[k].credential).value


\* The entries of `value` are those of the sources, one each: entry k
\* belongs to source s when Of(s, value[k]) holds.
OnePerSource(value, Of(_, _)) ==
  /\ Len(value) = Len(organizations)
  /\ \E at \in [Sources -> 1..Len(value)] :
       /\ \A s, t \in Sources : at[s] = at[t] => s = t
       /\ \A s \in Sources : Of(s, value[at[s]])

\* C26: getOwners sends no request, neither a rate-limit check nor an API
\* call, is resolved as soon as it is called, and its value holds exactly one
\* owner entry per configured source, sorted by owner name.
C26_GetOwnersIsLocal ==
  call.op = "getOwners" =>
    /\ call.promise = "resolved"
    /\ net = {}
    /\ hist.nData = 0
    /\ OnePerSource(call.value,
                    LAMBDA s, entry : /\ entry.name = organizations[s].owner
                                      /\ entry.url = <<"https://github.com/", entry.name>>)
    /\ IsSorted(Names(call.value))

\* getOwners has resolved for a configuration that is not in owner order.
C26_Witness ==
  /\ call.op = "getOwners"
  /\ call.promise = "resolved"
  /\ ~IsSorted([s \in Sources |-> organizations[s].owner])

\* C27: getOwnerRateLimits sends exactly one rate-limit request per source
\* and no gate: it rejects only after one of these requests failed, and
\* otherwise it resolves, once all have answered, with one entry per source
\* that holds the quota this source reported, whatever that quota is.
C27_OwnerRateLimitsUngated ==
  call.op = "getOwnerRateLimits" =>
    /\ hist.nData = Len(organizations)
    /\ \A r \in net : r.kind = "owners.rateLimit" /\ r.org \in Sources
    /\ \A r \in net : \A p \in hist.quota : p[1] # r.org
    /\ call.promise = "rejected" => "owners.rateLimit" \in hist.failed
    /\ (net = {} /\ hist.failed = {}) => call.promise = "resolved"
    /\ call.promise = "resolved" =>
         /\ call.shape = "wrapped"
         /\ IsSorted([k \in 1..Len(call.value) |-> call.value[k].owner])
         /\ OnePerSource(call.value,
                         LAMBDA s, entry :
                           /\ entry.owner = organizations[s].owner
                           /\ Len(entry.ratelimit) = 1
                           /\ <<s, entry.ratelimit[1].remaining>> \in hist.quota)

\* getOwnerRateLimits has resolved although a source reported no quota left.
C27_Witness ==
  /\ call.op = "getOwnerRateLimits"
  /\ call.promise = "resolved"
  /\ \E p \in hist.quota : p[2] = 0
  /\ \E k \in 1..Len(call.value) : call.value[k].ratelimit[1].remaining = 0

\* The number of times `login` occurs in the groups of getOwnerOrgs.
TimesInGroups(login, groups) ==
  Cardinality({<<k, i>> \in (1..Len(groups)) \X (1..MaxListLen) :
                 i <= Len(groups[k].orgs) /\ groups[k].orgs[i].login = login})

\* C30: getOwnerOrgs resolves with one group per configured source, the group
\* of a source holding exactly the organizations that source listed and whose
\* login passes its regex; over all groups every login occurs as often as in
\* the result of an unauthenticated getOrgs, that is once per source that
\* listed it and whose regex it passes.
C30_OwnerOrgsGroupGetOrgs ==
  (call.op = "getOwnerOrgs" /\ call.promise = "resolved") =>
    /\ OnePerSource(call.value,
                    LAMBDA s, group :
                      /\ group.owner = organizations[s].owner
                      /\ Range(Logins(group.orgs)) = {p[1] : p \in {q \in ListedMatching : q[2] = s}}
                      /\ Len(group.orgs) = Cardinality(Range(Logins(group.orgs))))
    /\ \A login \in OrgLogins :
         TimesInGroups(login, call.value) = Cardinality({p \in ListedMatching : p[1] = login})

\* getOwnerOrgs has resolved with a login in the groups of two sources, and
\* some listed organization was filtered out.
C30_Witness ==
  /\ call.op = "getOwnerOrgs"
  /\ call.promise = "resolved"
  /\ \E login \in OrgLogins : TimesInGroups(login, call.value) = 2
  /\ ListedMatching # hist.listed


\* C28: when no hostUrlPrefix is given, be it that normalizeCategories is
\* called without options or with the options of a client constructed
\* without that option, the url of every normalized organization and owner
\* is https://github.com/ followed by its name.
C28_DefaultHostUrlPrefix ==
  (/\ Len(norm.outs) >= 1
   /\ norm.categories \in {<<"orgs">>, <<"owners">>}
   /\ norm.options \in {Empty, optionsURL}) =>
    /\ ~norm.outs[1].thrown
    /\ \A k \in 1..Len(Normalized(norm.outs[1])) :
         LET entry == Normalized(norm.outs[1])[k]
         IN  entry.url = <<"https://github.com/", entry.name>>

\* The canonical shape of the entries of a category: each field with the raw
\* property it is taken from and the kind of value it holds.
Shape(category) ==
  CASE category \in {"members", "users"} ->
         {<<"name", "login", "string">>, <<"id", "id", "id">>, <<"url", "html_url", "string">>,
          <<"avatar_url", "avatar_url", "string">>}
    [] category = "orgs" ->
         {<<"name", "login", "string">>, <<"id", "id", "id">>,
          <<"avatar_url", "avatar_url", "string">>, <<"description", "description", "string">>}
    [] category = "teams" ->
         {<<"name", "name", "string">>, <<"id", "id", "id">>, <<"privacy", "privacy", "string">>,
          <<"permission", "permission", "string">>,
          <<"description", "description", "string">>}
    [] category = "repos" ->
         {<<"name", "name", "string">>, <<"full_name", "full_name", "string">>,
          <<"id", "id", "id">>, <<"url", "html_url", "string">>,
          <<"description", "description", "string">>, <<"private", "private", "boolean">>,
          <<"repo_files", "repo_files", "object">>, <<"fork", "fork", "boolean">>,
          <<"created_at", "created_at", "string">>, <<"updated_at", "updated_at", "string">>,
          <<"pushed_at", "pushed_at", "string">>, <<"git_url", "git_url", "string">>,
          <<"ssh_url", "ssh_url", "string">>, <<"clone_url", "clone_url", "string">>,
          <<"stargazers_count", "stargazers_count", "count">>,
          <<"watchers_count", "watchers_count", "count">>,
          <<"default_branch", "default_branch", "string">>}

\* Field `f` of `entry` holds the default of its kind.
IsDefault(entry, f, kind) ==
  CASE kind = "id" -> entry[f] = -1
    [] kind = "string" -> entry[f] = ""
    [] kind = "boolean" -> entry[f] = FALSE
    [] kind = "count" -> entry[f] = 0
    [] kind = "object" -> entry[f] = Empty

\* C29: the normalized entry of a raw organization, user, repository or team
\* has every field of its canonical shape; a field the raw element has holds
\* the raw value, an absent one the default of its kind (id -1, string '',
\* boolean false, count 0, repo_files {}).
C29_CanonicalShapeWithDefaults ==
  (/\ Len(norm.outs) >= 1
   /\ norm.categories \in {<<"orgs">>, <<"members">>, <<"users">>, <<"teams">>, <<"repos">>}) =>
    /\ ~norm.outs[1].thrown
    /\ Len(Normalized(norm.outs[1])) = Len(norm.input)
    /\ \A k \in 1..Len(norm.input) :
         LET element == norm.input[k]
             entry == Normalized(norm.outs[1])[k]
         IN  /\ norm.categories = <<"orgs">> => Has(entry, "url")
             /\ \A field \in Shape(norm.categories[1]) :
                  /\ Has(entry, field[1])
                  /\ IF Has(element, field[2])
                     THEN entry[field[1]] = element[field[2]]
                     ELSE IsDefault(entry, field[1], field[3])

\* A repository without any property and a team with only some of them have
\* been normalized.
C29_Witness ==
  /\ Len(norm.outs) >= 1
  /\ \/ norm.categories = <<"repos">> /\ Empty \in Range(norm.input)
     \/ /\ norm.categories = <<"teams">>
        /\ \E k \in 1..Len(norm.input) :
             Has(norm.input[k], "permission") /\ ~Has(norm.input[k], "id")


\* C31: a top-level call of a query method or of getOwnerOrgs with fresh
\* options sends exactly one rate-limit request per configured source, sends
\* no other request while one of these is unanswered, and none of the
\* functions it calls sends a rate-limit request again.
C31_OneGatePerCall ==
  call.op \in QueryOps \cup {"getOwnerOrgs"} =>
    /\ hist.nGate = Len(organizations)
    /\ \A r, s \in net : (r.kind = "misc.rateLimit" /\ s.kind = "misc.rateLimit" /\ r.org = s.org)
                            => r = s
    /\ (\E r \in net : r.kind = "misc.rateLimit") => hist.nData = 0

\* A call that goes through three nested functions has resolved after the
\* gate and data requests.
C31_Witness ==
  /\ call.op = "getCollaborators"
  /\ call.promise = "resolved"
  /\ hist.nGate = Len(organizations)
  /\ hist.nData >= 3


\* C32: in a sequence of top-level calls, also when a call passes the options
\* object of an earlier call, no call sends a data request unless it has sent
\* its rate-limit requests, one per source, before.
C32_EveryCallChecksFirst ==
  (call.op # "none" /\ hist.nData > 0) => hist.nGate = Len(organizations)

GateReasons == {"rate limit reached", "unknown error"}

\* C39: when the gate of the first call that is given an options object
\* rejects, because a rate-limit request failed or a source reported a used
\* up quota, skipRateLimitCheck is not set on that object, neither then nor
\* later.
C39_RejectingGateLeavesOptionsUnmarked ==
  (calls = 1 /\ call.promise = "rejected" /\ call.reason.type \in GateReasons)
    => ~options.skipRateLimitCheck


\* C33: a call of a query method whose options carry `normalize: false` when
\* it is made resolves with the raw aggregate alone, not with the
\* {normalized, raw} pair.
C33_NormalizeFalseGivesRaw ==
  (call.op \in QueryOps /\ hist.normalizeOff /\ call.promise = "resolved")
    => call.shape = "raw"


\* C34: a call of getOrgRepoStats whose category list holds a name that is
\* no statistics category sends no request at all: no rate-limit request and
\* no organization, repository or statistics request.
C34_UnknownCategoryFailsBeforeRequests ==
  (call.op = "getOrgRepoStats"
   /\ Range(options.categories) \ (StatCategories \cup {"all"}) # {})
    => (net = {} /\ hist.nGate = 0 /\ hist.nData = 0)


\* C36: a call of getOrgRepos with file paths settles for every outcome of
\* its file fetches: once no request is unanswered, its promise is resolved
\* or rejected, also when a fetch ended in a transport failure (no request
\* other than file fetches having failed).
C36_FileFetchOutcomesSettle ==
  (call.op = "getOrgRepos" /\ options.repoFiles # None /\ net = {}
   /\ hist.failed \subseteq {"request"})
    => call.promise # "pending"


\* The sources that listed `login` and whose regex it passes.
MatchingSources(login) == {s \in Sources : <<login, s>> \in ListedMatching}

RECURSIVE MatchedUpTo(_)
\* The sum, over the first n sources, of the number of organizations they
\* listed that pass their regex.
MatchedUpTo(n) ==
  IF n = 0 THEN 0
  ELSE Cardinality({p \in ListedMatching : p[2] = n}) + MatchedUpTo(n - 1)

\* C38: the result of an unauthenticated getOrgs is not de-duplicated across
\* sources: an organization matched by k sources is in it k times, once with
\* the credential of each of these sources, and the length of the result is
\* the sum over the sources of their matching organizations.
C38_NoDeduplicationAcrossSources ==
  Resolved("getOrgs", FALSE) =>
    /\ \A login \in OrgLogins :
         LET copies == {i \in 1..Len(call.value) : call.value[i].login = login}
         IN  /\ Cardinality(copies) = Cardinality(MatchingSources(login))
             /\ {call.value[i].credential : i \in copies} =
                  {organizations[s].credential : s \in MatchingSources(login)}
    /\ Len(call.value) = MatchedUpTo(Len(organizations))

\* An unauthenticated getOrgs has resolved with an organization that two
\* sources matched, next to one that a single source matched.
C38_Witness ==
  /\ Resolved("getOrgs", FALSE)
  /\ \E login \in OrgLogins : Cardinality(MatchingSources(login)) = 2
  /\ \E login \in OrgLogins : Cardinality(MatchingSources(login)) = 1
  /\ Len(call.value) = 3


\* The properties that hold a credential or the authenticated user.
CredentialProperties == {"_credential", "credential", "auth_user"}

\* The raw element without these properties.
WithoutCredentials(element) ==
  [f \in (DOMAIN element) \ CredentialProperties |-> element[f]]

\* C37: no entry of a normalized tree of organizations or owners has a
\* property that holds a credential or the authenticated user, although the
\* raw elements have them, and the tree is the one the same raw data without
\* these properties gives: it does not depend on the credentials.
C37_NoCredentialInNormalized ==
  (/\ Len(norm.outs) >= 1
   /\ norm.categories # <<>>
   /\ norm.categories[1] \in {"orgs", "owners"}
   /\ \E k \in 1..Len(norm.input) : DOMAIN norm.input[k] \cap CredentialProperties # {}) =>
    /\ ~norm.outs[1].thrown
    /\ \A k \in 1..Len(Normalized(norm.outs[1])) :
         DOMAIN Normalized(norm.outs[1])[k] \cap CredentialProperties = {}
    /\ norm.outs[1].value =
         normalizeCategories(norm.categories,
                             [k \in 1..Len(norm.input) |-> WithoutCredentials(norm.input[k])],
                             norm.options).value
    /\ \A k \in 1..Len(norm.raw) :
         DOMAIN norm.raw[k] \cap CredentialProperties =
           DOMAIN norm.input[k] \cap CredentialProperties

\* Two organizations with different credentials, one with the authenticated
\* user attached, have been normalized.
C37_Witness ==
  /\ Len(norm.outs) >= 1
  /\ norm.categories = <<"orgs", "repos">>
  /\ Len(norm.input) = 2
  /\ norm.input[1]["_credential"] # norm.input[2]["_credential"]
  /\ Has(norm.input[1], "auth_user")


====
